---- MODULE Spec2Model ----
(***************************************************************************)
(* Model of the model-selection and task-dispatch layer of the GitHub      *)
(* issue resolver: ModelManager (provider registration, getOptimalModel,   *)
(* executeWithModel, usage statistics) and TaskManager                     *)
(* (executeTaskWithOptimalModel with its fallback path).                   *)
(*                                                                         *)
(* Costs are integers: one unit is 2.5e-7 dollars per token, so that the   *)
(* rates of the shipped providers (0.00003, 0.000015, 0.00000025, 0) are   *)
(* 120, 60, 1 and 0.                                                       *)
(***************************************************************************)
EXTENDS Integers, Sequences, FiniteSets, TLC

\* ------------------------------------------------------------------ bounds

\* executeWithModel calls accounted in the ledger plus calls in flight.
MaxCalls == 3
\* executeWithModel calls suspended at the awaited adapter call at once.
MaxInFlight == 2
\* executeWithModel calls already in the ledger when a task execution may start.
MaxTaskCalls == 1

\* ------------------------------------------------------- values and catalog

None == "<undefined>"

\* requirements.maxCost === undefined, among the numbers maxCost ranges over.
NoMaxCost == -1

NoRequirements ==
    [needsVision |-> FALSE, needsFunctionCalling |-> FALSE,
     maxCost |-> NoMaxCost, preferSpeed |-> FALSE]

Caps(a, c, r, v) ==
    (IF a = None THEN << >> ELSE << [type |-> "analysis", strength |-> a] >>)
    \o (IF c = None THEN << >> ELSE << [type |-> "coding", strength |-> c] >>)
    \o (IF r = None THEN << >> ELSE << [type |-> "reasoning", strength |-> r] >>)
    \o (IF v = None THEN << >> ELSE << [type |-> "vision", strength |-> v] >>)

AIModel(n, p, caps, cost, vision, fc) ==
    [name |-> n, provider |-> p, capabilities |-> caps, costPerToken |-> cost,
     supports |-> [vision |-> vision, functionCalling |-> fc]]

OpenAIProvider ==
    [name |-> "OpenAI",
     models |-> <<
        AIModel("gpt-4o", "openai",
                Caps("excellent", "excellent", "excellent", "high"), 120, TRUE, TRUE),
        AIModel("gpt-4o-mini", "openai",
                Caps("high", "high", "high", None), 60, FALSE, TRUE) >>]

AnthropicProvider ==
    [name |-> "Anthropic",
     models |-> <<
        AIModel("claude-3-5-sonnet-20241022", "anthropic",
                Caps("excellent", "excellent", "excellent", "high"), 60, TRUE, TRUE),
        AIModel("claude-3-haiku-20240307", "anthropic",
                Caps("high", "high", "high", None), 1, FALSE, FALSE) >>]

LocalProvider ==
    [name |-> "Local",
     models |-> <<
        AIModel("llama-3.1-8b", "local",
                Caps("medium", "medium", "medium", None), 0, FALSE, FALSE) >>]

\* A provider written against the AIProvider interface that is not one of the
\* three shipped ones: it declares a model name the OpenAI provider declares
\* too, with another rate and without function calling, and its models name
\* "openai" as their provider key while it registers itself as "azure". Of
\* its four deployments one has no analysis tag.
AzureProvider ==
    [name |-> "Azure",
     models |-> <<
        AIModel("gpt-4o-mini", "openai",
                Caps("medium", None, None, None), 40, FALSE, FALSE),
        AIModel("dall-e-3", "openai",
                Caps(None, None, None, None), 50, FALSE, FALSE),
        AIModel("gpt-4", "openai",
                Caps("high", None, None, None), 60, FALSE, FALSE),
        AIModel("gpt-35-turbo", "openai",
                Caps("medium", None, None, None), 20, FALSE, FALSE) >>]

ProviderCatalog == {OpenAIProvider, AnthropicProvider, LocalProvider, AzureProvider}

\* The providers registered where the ledger is observed: two that declare a
\* common model name, so that a name is registered twice.
LedgerProviders == {OpenAIProvider, AzureProvider}

RECURSIVE SeqToSet(_)
SeqToSet(s) == IF s = << >> THEN {} ELSE {Head(s)} \cup SeqToSet(Tail(s))

CatalogNames == UNION {{m.name : m \in SeqToSet(p.models)} : p \in ProviderCatalog}

DefaultModel == "gpt-4o-mini"

\* String.prototype.toLowerCase on the provider names of the catalog.
ToLowerCase(s) ==
    CASE s = "OpenAI" -> "openai"
      [] s = "Anthropic" -> "anthropic"
      [] s = "Local" -> "local"
      [] s = "Azure" -> "azure"
      [] OTHER -> s

\* The keys providers are stored and looked up under.
ProviderKeys ==
    {ToLowerCase(p.name) : p \in ProviderCatalog}
    \cup UNION {{m.provider : m \in SeqToSet(p.models)} : p \in ProviderCatalog}

\* The task types getOptimalModel is asked about: a category of the registered
\* tasks that is a capability type too, one that is not, and a task name the
\* preference map is keyed by.
TaskTypes == {"analysis", "resolution", "triage-issues", "vision"}

\* Lengths of the prompts and of the adapters' responses, in characters.
PromptLengths == {5}
ResponseLengths == {0, 7}

VARIABLES
    providers,            \* Map<string, AIProvider>: key -> provider name, or None
    modelRegistry,        \* Map<string, AIModel>, in insertion order
    taskModelPreferences, \* Map<string, string>: task type -> model name, or None
    usageStats,           \* Map<string, {calls, tokens, cost}>, in insertion order
    inflight,             \* executeWithModel calls awaiting makeRequest
    lastOp,               \* the operation that took the last step
    invoked,              \* names whose executeWithModel has succeeded
    run,                  \* the current uninterrupted run of successful calls
    selection,            \* the getOptimalModel call just made and what it returned
    context,              \* TaskManager.context: issueNumber, modelSelection
    exec,                 \* the executeTaskWithOptimalModel call under way or ended
    snapshot,             \* the rows getUsageStats returned, as its caller holds them
    url,                  \* the input of the URL parser and what its calls returned
    outcome,              \* what the executeWithModel call just ended returned
    tally                 \* the successful calls counted since the records were created

vars == <<providers, modelRegistry, taskModelPreferences, usageStats, inflight,
          lastOp, invoked, run, selection, context, exec, snapshot,
          url, outcome, tally>>

tmVars == <<context, exec>>


\* ------------------------------------------------------------- Map helpers

ZeroStats == [calls |-> 0, tokens |-> 0, cost |-> 0]

\* Map.prototype.has / get / set on modelRegistry: a Map keeps insertion
\* order, and set on a present key replaces the value where the key stands.
RegistryIndex(reg, name) ==
    IF \E i \in 1..Len(reg) : reg[i].name = name
    THEN CHOOSE i \in 1..Len(reg) : reg[i].name = name
    ELSE 0

RegistryHas(reg, name) == RegistryIndex(reg, name) # 0

RegistryGet(reg, name) == reg[RegistryIndex(reg, name)]

RegistrySet(reg, model) ==
    IF RegistryHas(reg, model.name)
    THEN [reg EXCEPT ![RegistryIndex(reg, model.name)] = model]
    ELSE Append(reg, model)

\* The same on usageStats, whose rows are kept as {model, calls, tokens, cost}.
UsageIndex(stats, name) ==
    IF \E i \in 1..Len(stats) : stats[i].model = name
    THEN CHOOSE i \in 1..Len(stats) : stats[i].model = name
    ELSE 0

UsageHas(stats, name) == UsageIndex(stats, name) # 0

UsageGet(stats, name) ==
    LET row == stats[UsageIndex(stats, name)]
    IN [calls |-> row.calls, tokens |-> row.tokens, cost |-> row.cost]

UsageRow(name, rec) ==
    [model |-> name, calls |-> rec.calls, tokens |-> rec.tokens, cost |-> rec.cost]

UsageSet(stats, name, rec) ==
    IF UsageHas(stats, name)
    THEN [stats EXCEPT ![UsageIndex(stats, name)] = UsageRow(name, rec)]
    ELSE Append(stats, UsageRow(name, rec))

RegistryNames(reg) == {reg[i].name : i \in 1..Len(reg)}

UsageNames(stats) == {stats[i].model : i \in 1..Len(stats)}

\* --------------------------------------------------------------- ModelManager

\* The keys of taskModelPreferences that are looked at: the task types asked
\* of getOptimalModel and the names of the tasks.
PreferenceKeys == TaskTypes \cup {"analyze-issue"}

\* initializeDefaultPreferences, run by the constructor.
initializeDefaultPreferences ==
    [t \in PreferenceKeys |->
        CASE t = "analyze-issue" -> "claude-3-5-sonnet-20241022"
          [] t = "bug-fix" -> "gpt-4o"
          [] t = "feature-implementation" -> "claude-3-5-sonnet-20241022"
          [] t = "documentation-update" -> "gpt-4o-mini"
          [] t = "security-scan" -> "gpt-4o"
          [] t = "test-generation" -> "claude-3-haiku-20240307"
          [] t = "refactoring" -> "claude-3-5-sonnet-20241022"
          [] t = "triage-issues" -> "gpt-4o-mini"
          [] OTHER -> None]

\* The tasks of the task registry that are modelled, and their categories.
Tasks == {"analyze-issue", "triage-issues"}

TaskCategory(taskName) ==
    CASE taskName = "analyze-issue" -> "analysis"
      [] taskName = "triage-issues" -> "analysis"

NoModelSelection ==
    [primary |-> None, fallback |-> None, taskSpecific |-> [t \in Tasks |-> None]]

NoContext == [issueNumber |-> FALSE, modelSelection |-> NoModelSelection]

NoParams == [model |-> None, requirements |-> NoRequirements]

NoResult == [success |-> FALSE, message |-> None, modelUsed |-> None]

NoEnvironment ==
    [adapter |-> [k \in {"openai", "anthropic"} |-> "ok"], github |-> TRUE,
     thrown |-> None]

Idle ==
    [pc |-> "idle", taskName |-> None, params |-> NoParams, selectedModel |-> None,
     attempt |-> None, modelInUse |-> None, environment |-> NoEnvironment,
     invocations |-> 0, remaining |-> 0, requests |-> 0, recorded |-> {},
     result |-> NoResult]

NoSelection ==
    [taskType |-> None, requirements |-> NoRequirements, engine |-> None,
     result |-> None]

\* No rows are held: getUsageStats was not called, or what its caller does
\* with the rows is no longer followed.
NoSnapshot == [rows |-> << >>, returned |-> << >>]

\* parseGitHubURL returned null.
Null == [owner |-> << >>, repo |-> << >>, issueNumber |-> -1]

\* The URL parser has not been called.
NoUrl == [input |-> << >>, called |-> {}, result |-> Null, isUrl |-> FALSE]

\* No executeWithModel call has just returned.
NoOutcome ==
    [model |-> None, tokensUsed |-> 0, cost |-> 0, promptLength |-> 0,
     responseLength |-> 0, rate |-> 0]

\* Nothing is counted any more: a registration has replaced records after
\* calls had begun.
NoTally == [valid |-> FALSE, interleaved |-> FALSE, rows |-> << >>]

NoRun == [model |-> None, n |-> 0, tokens |-> 0, cost |-> 0, base |-> ZeroStats]

Init ==
    /\ providers = [k \in ProviderKeys |-> None]
    /\ modelRegistry = << >>
    /\ taskModelPreferences = initializeDefaultPreferences
    /\ usageStats = << >>
    /\ inflight = << >>
    /\ lastOp = [op |-> "constructor", arg |-> None]
    /\ invoked = {}
    /\ run = NoRun
    /\ selection = NoSelection
    /\ context = NoContext
    /\ exec = Idle
    /\ snapshot = NoSnapshot
    /\ url = NoUrl
    /\ outcome = NoOutcome
    /\ tally = [valid |-> TRUE, interleaved |-> FALSE, rows |-> << >>]

\* The body of addProvider's forEach for one model: the registry entry and
\* the usage record are both set, whether or not the name is known already.
RegisterModel(reg, model) == RegistrySet(reg, model)

\* addProvider without line 101: no usage record is created.
InitUsageForgotten(stats, model) == stats

InitUsage(stats, model) == UsageSet(stats, model.name, ZeroStats)

RECURSIVE RegisterModels(_, _)
RegisterModels(reg, models) ==
    IF models = << >> THEN reg
    ELSE RegisterModels(RegisterModel(reg, Head(models)), Tail(models))

RECURSIVE InitUsages(_, _)
InitUsages(stats, models) ==
    IF models = << >> THEN stats
    ELSE InitUsages(InitUsage(stats, Head(models)), Tail(models))

\* A call suspended at its await has started before this registration: it is
\* no longer part of an uninterrupted run of calls.
Interrupted(calls) == [i \in 1..Len(calls) |-> [calls[i] EXCEPT !.clean = FALSE]]

\* The count goes on over a registration only when no call has begun yet.
TallyAfterRegistration(provider) ==
    IF /\ tally.valid
       /\ inflight = << >>
       /\ \A i \in 1..Len(tally.rows) : tally.rows[i].calls = 0
    THEN [tally EXCEPT !.rows = InitUsages(tally.rows, provider.models)]
    ELSE NoTally

addProvider(provider) ==
    /\ providers' = [providers EXCEPT ![ToLowerCase(provider.name)] = provider.name]
    /\ modelRegistry' = RegisterModels(modelRegistry, provider.models)
    /\ usageStats' = InitUsages(usageStats, provider.models)
    /\ inflight' = Interrupted(inflight)
    /\ lastOp' = [op |-> "addProvider", arg |-> provider.name]
    /\ run' = NoRun
    /\ selection' = NoSelection
    /\ tally' = TallyAfterRegistration(provider)
    /\ UNCHANGED <<taskModelPreferences, invoked>>
    /\ UNCHANGED tmVars
    /\ snapshot' = NoSnapshot
    /\ outcome' = NoOutcome
    /\ UNCHANGED url

AddProvider == \E provider \in LedgerProviders : addProvider(provider)


\* Math.ceil(n / 4) for a length n.
CeilDiv4(n) == (n + 3) \div 4

\* Math.floor written for Math.ceil.
EstimateTokensRoundingDown(promptLength, responseLength) ==
    (promptLength \div 4) + (responseLength \div 4)

\* Lines 208-210: the token estimate and the cost of one call.
EstimateTokens(promptLength, responseLength) ==
    CeilDiv4(promptLength) + CeilDiv4(responseLength)

CallCost(tokensUsed, model) == tokensUsed * model.costPerToken

\* Lines 213-216 with "=" written for "+=": the totals are overwritten.
RecordUsageOverwriting(stats, modelName, tokensUsed, cost) ==
    LET old == UsageGet(stats, modelName)
    IN UsageSet(stats, modelName,
                [calls |-> old.calls + 1, tokens |-> tokensUsed, cost |-> cost])

\* Lines 213-216 on records that are one object: line 101 written with one
\* literal shared by the models, so that an update shows in every record.
RecordUsageOnSharedRecord(stats, modelName, tokensUsed, cost) ==
    [i \in 1..Len(stats) |->
        [stats[i] EXCEPT !.calls = @ + 1, !.tokens = @ + tokensUsed,
                         !.cost = @ + cost]]

\* Lines 213-216 with the record's numbers read before the await and written
\* after it: of the calls of a model that are in flight together only the
\* last to end is left in the record.
RecordUsageFromStaleRead(stats, modelName, tokensUsed, cost) ==
    IF Cardinality({i \in 1..Len(inflight) : inflight[i].modelName = modelName}) > 1
    THEN stats
    ELSE LET old == UsageGet(stats, modelName)
         IN UsageSet(stats, modelName,
                     [calls |-> old.calls + 1,
                      tokens |-> old.tokens + tokensUsed,
                      cost |-> old.cost + cost])

\* Lines 213-216: the update of the usage record.
RecordUsage(stats, modelName, tokensUsed, cost) ==
    LET old == UsageGet(stats, modelName)
    IN UsageSet(stats, modelName,
                [calls |-> old.calls + 1,
                 tokens |-> old.tokens + tokensUsed,
                 cost |-> old.cost + cost])

TotalCalls(stats) ==
    LET RECURSIVE Sum(_)
        Sum(i) == IF i = 0 THEN 0 ELSE stats[i].calls + Sum(i - 1)
    IN Sum(Len(stats))

ModelNames == {"gpt-4o", "gpt-4o-mini", "no-such-model"}

\* The usage record touched before the provider lookup.
executeWithModelThrowsAfterCounting(modelName) ==
    /\ \/ /\ ~RegistryHas(modelRegistry, modelName)
          /\ lastOp' = [op |-> "executeWithModel:notFound", arg |-> modelName]
          /\ UNCHANGED usageStats
       \/ /\ RegistryHas(modelRegistry, modelName)
          /\ providers[RegistryGet(modelRegistry, modelName).provider] = None
          /\ lastOp' = [op |-> "executeWithModel:notConfigured", arg |-> modelName]
          /\ usageStats' = RecordUsage(usageStats, modelName, 0, 0)
    /\ UNCHANGED <<providers, modelRegistry, taskModelPreferences,
                   inflight, invoked, tally, run, selection>>
    /\ UNCHANGED tmVars
    /\ snapshot' = NoSnapshot
    /\ outcome' = NoOutcome
    /\ UNCHANGED url

\* executeWithModel up to its await: the two lookups, either of which throws,
\* and the call of the adapter, which suspends the invocation.
executeWithModelThrows(modelName) ==
    /\ \/ /\ ~RegistryHas(modelRegistry, modelName)
          /\ lastOp' = [op |-> "executeWithModel:notFound", arg |-> modelName]
       \/ /\ RegistryHas(modelRegistry, modelName)
          /\ providers[RegistryGet(modelRegistry, modelName).provider] = None
          /\ lastOp' = [op |-> "executeWithModel:notConfigured", arg |-> modelName]
    /\ UNCHANGED <<providers, modelRegistry, taskModelPreferences, usageStats,
                   inflight, invoked, tally, run, selection>>
    /\ UNCHANGED tmVars
    /\ snapshot' = NoSnapshot
    /\ outcome' = NoOutcome
    /\ UNCHANGED url

executeWithModelCalls(promptLength, modelName, caller) ==
    /\ RegistryHas(modelRegistry, modelName)
    /\ providers[RegistryGet(modelRegistry, modelName).provider] # None
    /\ inflight' = Append(inflight,
                          [modelName |-> modelName,
                           model |-> RegistryGet(modelRegistry, modelName),
                           promptLength |-> promptLength,
                           caller |-> caller,
                           clean |-> TRUE,
                                      attempts |-> 1])
    /\ lastOp' = [op |-> "executeWithModel:call", arg |-> modelName]
    /\ UNCHANGED <<providers, modelRegistry, taskModelPreferences, usageStats,
                   invoked, tally, run, selection>>

Remove(seq, i) == SubSeq(seq, 1, i - 1) \o SubSeq(seq, i + 1, Len(seq))

\* The run of successful calls after call c has succeeded with t tokens.
RunAfter(c, t) ==
    LET rate == RegistryGet(modelRegistry, c.modelName).costPerToken
    IN IF ~c.clean THEN NoRun
       ELSE IF run.model = c.modelName
       THEN [run EXCEPT !.n = @ + 1, !.tokens = @ + t, !.cost = @ + t * rate]
       ELSE [model |-> c.modelName, n |-> 1, tokens |-> t, cost |-> t * rate,
             base |-> UsageGet(usageStats, c.modelName)]

\* One more successful call of the model is counted, with its estimate.
TallyAfterSuccess(modelName, tokensUsed, others) ==
    IF ~tally.valid THEN tally
    ELSE LET i == UsageIndex(tally.rows, modelName)
         IN [tally EXCEPT !.interleaved = @ \/ others,
                          !.rows[i].calls = @ + 1,
                          !.rows[i].tokens = @ + tokensUsed]

\* The adapter's promise resolves: lines 206-229.
makeRequestResolves(i, responseLength) ==
    LET c == inflight[i]
        tokensUsed == EstimateTokens(c.promptLength, responseLength)
        cost == CallCost(tokensUsed, c.model)
    IN /\ usageStats' = RecordUsage(usageStats, c.modelName, tokensUsed, cost)
       /\ inflight' = Remove(inflight, i)
       /\ lastOp' = [op |-> "executeWithModel:returned", arg |-> c.modelName]
       /\ outcome' = [model |-> c.modelName, tokensUsed |-> tokensUsed,
                      cost |-> cost, promptLength |-> c.promptLength,
                      responseLength |-> responseLength,
                      rate |-> c.model.costPerToken]
       /\ invoked' = invoked \cup {c.modelName}
       /\ tally' = TallyAfterSuccess(c.modelName, tokensUsed, Len(inflight) > 1)
       /\ run' = RunAfter(c, tokensUsed)
       /\ UNCHANGED <<providers, modelRegistry, taskModelPreferences, selection>>

\* The adapter's promise rejects: the await at line 205 throws and nothing
\* after it runs.
\* The update of lines 213-216 moved into a finally block: a rejected call is
\* counted too, with the prompt's tokens.
FailedCallStatsCounted(stats, c) ==
    LET tokensUsed == EstimateTokens(c.promptLength, 0)
    IN RecordUsage(stats, c.modelName, tokensUsed, CallCost(tokensUsed, c.model))

FailedCallStats(stats, c) == stats

\* The await of line 205 wrapped in a retry: a first rejection leaves the
\* invocation in flight for a second makeRequest.
RetriedAfterRejection(calls, i) ==
    IF calls[i].attempts < 2
    THEN [calls EXCEPT ![i].attempts = @ + 1]
    ELSE Remove(calls, i)

\* Line 205 stands in no try block and no loop: the rejection of makeRequest
\* is the rejection of executeWithModel, and the invocation is over.
AfterRejection(calls, i) == Remove(calls, i)

makeRequestRejects(i) ==
    LET c == inflight[i]
    IN /\ usageStats' = FailedCallStats(usageStats, c)
       /\ inflight' = AfterRejection(inflight, i)
       /\ lastOp' = [op |-> "executeWithModel:failed", arg |-> c.modelName]
       /\ UNCHANGED <<providers, modelRegistry, taskModelPreferences, invoked, tally, run,
                      selection>>

ExecuteWithModelThrows == \E modelName \in ModelNames : executeWithModelThrows(modelName)

\* executeWithModel called from outside the task layer.
ExecuteWithModelCalls ==
    \E promptLength \in PromptLengths, modelName \in ModelNames :
        /\ Len(inflight) < MaxInFlight
        /\ TotalCalls(usageStats) + Len(inflight) < MaxCalls
        /\ executeWithModelCalls(promptLength, modelName, "direct")
        /\ UNCHANGED tmVars
        /\ snapshot' = NoSnapshot
        /\ outcome' = NoOutcome
        /\ UNCHANGED url

MakeRequestResolves ==
    \E i \in 1..Len(inflight), responseLength \in ResponseLengths :
        /\ inflight[i].caller = "direct"
        /\ makeRequestResolves(i, responseLength)
        /\ UNCHANGED tmVars
        /\ snapshot' = NoSnapshot
        /\ UNCHANGED url

MakeRequestRejects ==
    \E i \in 1..Len(inflight) :
        /\ inflight[i].caller = "direct"
        /\ makeRequestRejects(i)
        /\ UNCHANGED tmVars
        /\ snapshot' = NoSnapshot
        /\ outcome' = NoOutcome
        /\ UNCHANGED url

\* getUsageStats: the entries of usageStats as rows {model, ...stats}.
getUsageStats ==
    [i \in 1..Len(usageStats) |->
        [model |-> usageStats[i].model, calls |-> usageStats[i].calls,
         tokens |-> usageStats[i].tokens, cost |-> usageStats[i].cost]]

\* The caller of getUsageStats is handed the rows; the rows it was handed
\* before are followed until it has written to them once.
GetUsageStats ==
    /\ snapshot.rows = snapshot.returned => snapshot = NoSnapshot
    /\ snapshot' = [rows |-> getUsageStats, returned |-> getUsageStats]
    /\ lastOp' = [op |-> "getUsageStats",
                  arg |-> IF snapshot = NoSnapshot THEN None ELSE "after write"]
    /\ UNCHANGED <<providers, modelRegistry, taskModelPreferences, usageStats,
                   inflight, invoked, tally, run, selection, context, exec, url,
                   outcome>>

\* Lines 251-254 without the object literal: the rows are the records of the
\* Map themselves, and a write to row i is a write to the ledger.
LedgerAfterWriteToAlias(stats, rows, i) ==
    IF i = 0 THEN stats
    ELSE [stats EXCEPT ![i] = rows[i]]

\* Lines 251-254: Array.from builds a new array and the object literal
\* {model, ...stats} a new row for each entry, holding numbers and a string:
\* what the caller writes to the rows does not reach the Map.
LedgerAfterWrite(stats, rows, i) == stats

\* What the caller does with the rows: a write to the fields of row i, or,
\* for i = 0, the removal of the last row from the returned array.
WrittenRows(rows, i) ==
    IF i = 0 THEN SubSeq(rows, 1, Len(rows) - 1)
    ELSE [rows EXCEPT ![i] = [@ EXCEPT !.calls = @ + 1, !.tokens = 0, !.cost = 0]]

ModifyReturnedRows ==
    \E i \in 0..Len(snapshot.rows) :
        /\ snapshot.rows # << >>
        /\ snapshot.rows = snapshot.returned
        /\ snapshot' = [snapshot EXCEPT !.rows = WrittenRows(snapshot.rows, i)]
        /\ usageStats' = LedgerAfterWrite(usageStats, snapshot'.rows, i)
        /\ lastOp' = [op |-> "caller:write", arg |-> None]
        /\ UNCHANGED <<providers, modelRegistry, taskModelPreferences,
                       inflight, invoked, tally, run, selection, context, exec, url,
                   outcome>>

Next ==
    \/ AddProvider
    \/ ExecuteWithModelThrows
    \/ ExecuteWithModelCalls
    \/ MakeRequestResolves
    \/ MakeRequestRejects
    \/ GetUsageStats
    \/ ModifyReturnedRows

Spec == Init /\ [][Next]_vars


\* ---------------------------------------------------------------- selector

\* The maxCost values getOptimalModel is asked with, besides none.
MaxCosts == {50}

Requirements ==
    [needsVision : BOOLEAN, needsFunctionCalling : BOOLEAN,
     maxCost : {NoMaxCost} \cup MaxCosts, preferSpeed : BOOLEAN]

NoCapability == [type |-> None, strength |-> None]

\* a.capabilities.find((c) => c.type === taskType): the first one, or none.
FindCapability(model, taskType) ==
    LET caps == model.capabilities
        hits == {i \in 1..Len(caps) : caps[i].type = taskType}
    IN IF hits = {} THEN NoCapability
       ELSE caps[CHOOSE i \in hits : \A j \in hits : i <= j]

strengthOrder(strength) ==
    CASE strength = "excellent" -> 4
      [] strength = "high" -> 3
      [] strength = "medium" -> 2
      [] strength = "low" -> 1

\* The comparator of lines 154-177.
compare(a, b, taskType, requirements) ==
    LET aCapability == FindCapability(a, taskType)
        bCapability == FindCapability(b, taskType)
        scored == aCapability # NoCapability /\ bCapability # NoCapability
        aScore == strengthOrder(aCapability.strength)
        bScore == strengthOrder(bCapability.strength)
    IN IF scored /\ aScore # bScore THEN bScore - aScore
       ELSE IF requirements.preferSpeed THEN a.costPerToken - b.costPerToken
       ELSE 0

Reverse(seq) == [i \in 1..Len(seq) |-> seq[Len(seq) + 1 - i]]

\* Array.prototype.sort as V8 (Node, the shebang of the CLI) performs it on an
\* array shorter than 64: the initial run is found (a strictly
\* descending one is reversed) and the rest is inserted by binary search.
sort(candidates, taskType, requirements) ==
    LET Cmp(a, b) == compare(a, b, taskType, requirements)
        n == Len(candidates)
        descending == Cmp(candidates[2], candidates[1]) < 0
        RECURSIVE RunEnd(_)
        RunEnd(idx) ==
            IF idx > n THEN n
            ELSE LET order == Cmp(candidates[idx], candidates[idx - 1])
                 IN IF (descending /\ order >= 0) \/ (~descending /\ order < 0)
                    THEN idx - 1
                    ELSE RunEnd(idx + 1)
        runLength == RunEnd(3)
        withRun ==
            IF descending
            THEN Reverse(SubSeq(candidates, 1, runLength))
                 \o SubSeq(candidates, runLength + 1, n)
            ELSE candidates
        RECURSIVE Search(_, _, _, _)
        Search(a, pivot, left, right) ==
            IF left >= right THEN left
            ELSE LET mid == left + ((right - left) \div 2)
                 IN IF Cmp(pivot, a[mid]) < 0
                    THEN Search(a, pivot, left, mid)
                    ELSE Search(a, pivot, mid + 1, right)
        RECURSIVE Insertion(_, _)
        Insertion(a, start) ==
            IF start > n THEN a
            ELSE LET pivot == a[start]
                     pos == Search(a, pivot, 1, start)
                 IN Insertion(SubSeq(a, 1, pos - 1) \o <<pivot>>
                              \o SubSeq(a, pos, start - 1)
                              \o SubSeq(a, start + 1, n),
                              start + 1)
    IN IF n < 2 THEN candidates ELSE Insertion(withRun, runLength + 1)

\* The engines the program is run on: Node (the shebang of the CLI entry
\* point) and Bun (the run scripts).
Engines == {"V8", "JavaScriptCore"}

Min(a, b) == IF a < b THEN a ELSE b

\* Array.prototype.sort as JavaScriptCore (Bun) performs it: a bottom-up
\* stable merge sort, the right element taken only when it compares below
\* the left one. The comparator of lines 155-176 is not a consistent
\* ordering, so the two engines need not agree.
mergeSort(candidates, taskType, requirements) ==
    LET Cmp(a, b) == compare(a, b, taskType, requirements)
        n == Len(candidates)
        RECURSIVE Merge(_, _, _, _, _)
        Merge(src, left, leftEnd, right, rightEnd) ==
            IF left >= leftEnd /\ right >= rightEnd THEN << >>
            ELSE IF right < rightEnd /\ left >= leftEnd
            THEN <<src[right]>> \o Merge(src, left, leftEnd, right + 1, rightEnd)
            ELSE IF right < rightEnd /\ Cmp(src[right], src[left]) < 0
            THEN <<src[right]>> \o Merge(src, left, leftEnd, right + 1, rightEnd)
            ELSE <<src[left]>> \o Merge(src, left + 1, leftEnd, right, rightEnd)
        RECURSIVE Pass(_, _, _)
        Pass(src, width, srcIndex) ==
            IF srcIndex > n THEN << >>
            ELSE LET leftEnd == Min(srcIndex + width, n + 1)
                     rightEnd == Min(leftEnd + width, n + 1)
                 IN Merge(src, srcIndex, leftEnd, leftEnd, rightEnd)
                    \o Pass(src, width, srcIndex + 2 * width)
        RECURSIVE Widths(_, _)
        Widths(src, width) ==
            IF width >= n THEN src ELSE Widths(Pass(src, width, 1), 2 * width)
    IN Widths(candidates, 1)

\* Lines 135-147 without the maxCost filter of lines 143-147.
PassesFiltersIgnoringCost(m, requirements) ==
    /\ requirements.needsVision => m.supports.vision
    /\ requirements.needsFunctionCalling => m.supports.functionCalling

\* Lines 135-147: the three filters.
PassesFilters(m, requirements) ==
    /\ requirements.needsVision => m.supports.vision
    /\ requirements.needsFunctionCalling => m.supports.functionCalling
    /\ requirements.maxCost # NoMaxCost => m.costPerToken <= requirements.maxCost

Candidates(reg, requirements) ==
    LET Keep(m) == PassesFilters(m, requirements)
    IN SelectSeq(reg, Keep)

\* Line 150 without the candidates.find: a set preference is returned as it is.
PreferredAppliesUnchecked(preferred, candidates) == preferred # None

\* Lines 149-152: the preferred model is returned when it is set and is
\* among the candidates.
PreferredApplies(preferred, candidates) ==
    /\ preferred # None
    /\ \E i \in 1..Len(candidates) : candidates[i].name = preferred

\* Line 179 without the default: the name of no candidate is undefined.
RankedSelectionWithoutDefault(candidates, taskType, requirements, engine) ==
    LET sorted == IF engine = "V8"
                  THEN sort(candidates, taskType, requirements)
                  ELSE mergeSort(candidates, taskType, requirements)
    IN IF sorted = << >> THEN None ELSE sorted[1].name

\* Lines 154-179: the name of the first candidate after the sort, or the
\* default when there is none.
RankedSelection(candidates, taskType, requirements, engine) ==
    LET sorted == IF engine = "V8"
                  THEN sort(candidates, taskType, requirements)
                  ELSE mergeSort(candidates, taskType, requirements)
    IN IF sorted = << >> THEN DefaultModel ELSE sorted[1].name

\* getOptimalModel on a registry and a preference map.
getOptimalModel(reg, preferences, taskType, requirements, engine) ==
    LET candidates == Candidates(reg, requirements)
        preferred == preferences[taskType]
    IN IF PreferredApplies(preferred, candidates) THEN preferred
       ELSE RankedSelection(candidates, taskType, requirements, engine)

\* Line 135 without Array.from: the sort of line 154 reorders the registry
\* itself when no filter has copied it.
RegistryAfterSortInPlace(reg, taskType, requirements, engine) ==
    IF Candidates(reg, requirements) # reg
       \/ PreferredApplies(taskModelPreferences[taskType], reg)
    THEN reg
    ELSE IF engine = "V8" THEN sort(reg, taskType, requirements)
         ELSE mergeSort(reg, taskType, requirements)

\* Lines 135 and 154: Array.from copies the values of the registry, and the
\* sort reorders the copy; the Map is only read.
RegistryAfterSelection(reg, taskType, requirements, engine) == reg

\* getOptimalModel reads the two maps and writes nothing, so what a call returns
\* does not depend on the calls before it: each call is taken from the state
\* the last write (addProvider, setTaskPreference) left, where no selection is
\* recorded. Every pair of maps is reached with no selection recorded.
\* The engine is the one the process runs on: it is recorded with the call.
GetOptimalModel ==
    \E taskType \in TaskTypes, requirements \in Requirements, engine \in Engines :
        /\ selection = NoSelection
        /\ selection' = [taskType |-> taskType, requirements |-> requirements,
                         engine |-> engine,
                         result |-> getOptimalModel(modelRegistry, taskModelPreferences,
                                                    taskType, requirements, engine)]
        /\ modelRegistry' = RegistryAfterSelection(modelRegistry, taskType,
                                                   requirements, engine)
        /\ lastOp' = [op |-> "getOptimalModel", arg |-> None]
        /\ UNCHANGED <<providers, taskModelPreferences, usageStats,
                       inflight, invoked, tally, run>>
        /\ UNCHANGED tmVars
        /\ snapshot' = NoSnapshot
        /\ outcome' = NoOutcome
        /\ UNCHANGED url

\* getOptimalModel called once more with the arguments of the call just made,
\* in the same process and with nothing in between.
GetOptimalModelAgain ==
    /\ selection.taskType # None
    /\ lastOp = [op |-> "getOptimalModel", arg |-> None]
    /\ selection' = [selection EXCEPT
                         !.result = getOptimalModel(modelRegistry, taskModelPreferences,
                                                    selection.taskType,
                                                    selection.requirements,
                                                    selection.engine)]
    /\ modelRegistry' = RegistryAfterSelection(modelRegistry, selection.taskType,
                                               selection.requirements,
                                               selection.engine)
    /\ lastOp' = [op |-> "getOptimalModel", arg |-> "again"]
    /\ UNCHANGED <<providers, taskModelPreferences, usageStats,
                   inflight, invoked, tally, run>>
    /\ UNCHANGED tmVars
    /\ snapshot' = NoSnapshot
    /\ outcome' = NoOutcome
    /\ UNCHANGED url

\* The task types setTaskPreference is called for and the names it is given.
PreferenceTaskTypes == {"analysis"}
PreferenceNames == {"gpt-4o-mini", "claude-3-haiku-20240307", "no-such-model"}

setTaskPreference(taskType, modelName) ==
    /\ taskModelPreferences' = [taskModelPreferences EXCEPT ![taskType] = modelName]
    /\ lastOp' = [op |-> "setTaskPreference", arg |-> None]
    /\ selection' = NoSelection
    /\ UNCHANGED <<providers, modelRegistry, usageStats, inflight, invoked, tally, run>>
    /\ UNCHANGED tmVars
    /\ snapshot' = NoSnapshot
    /\ outcome' = NoOutcome
    /\ UNCHANGED url

SetTaskPreference ==
    \E taskType \in PreferenceTaskTypes, modelName \in PreferenceNames :
        setTaskPreference(taskType, modelName)

RegisterProvider == \E provider \in ProviderCatalog : addProvider(provider)

\* executeWithModel of the name getOptimalModel has just returned, where one
\* of its two lookups throws.
ExecuteSelectedThrows ==
    /\ selection.taskType # None
    /\ executeWithModelThrows(selection.result)

NextSelector ==
    \/ RegisterProvider
    \/ SetTaskPreference
    \/ GetOptimalModel
    \/ GetOptimalModelAgain
    \/ ExecuteSelectedThrows

SpecSelector == Init /\ [][NextSelector]_vars

\* ---------------------------------------------------------------- TaskManager

\* What the world outside the process does during one execution of a task:
\* how makeRequest of each provider ends ("ok": resolves; "error": rejects with
\* an Error; "null": rejects with null, which AIProvider.makeRequest permits
\* and the shipped adapters never do), and whether the GitHub API answers.
AdapterModes == {"ok", "error", "null"}

TaskProviderKeys == {"openai", "anthropic"}

\* The values a replaced task implementation rejects with. listTasks (lines
\* 181-183) hands out the registered task objects themselves, so execute can
\* be any function the ClaudeCodeTask interface admits.
ThrownValues == {"Error", "string", "null", "undefined"}

\* thrown = None: the task implementation is the shipped one. The adapters
\* are not reached when GitHub does not answer or when the implementation is
\* replaced, so one adapter assignment stands for all of them there.
Environments ==
    [adapter : [TaskProviderKeys -> AdapterModes], github : {TRUE}, thrown : {None}]
    \cup [adapter : {[k \in TaskProviderKeys |-> "ok"]}, github : {FALSE},
          thrown : {None}]
    \cup [adapter : {[k \in TaskProviderKeys |-> "ok"]}, github : {TRUE},
          thrown : ThrownValues]

\* A task that is not registered is not run: its environment plays no part.
EnvironmentsOf(taskName) ==
    IF taskName \in Tasks THEN Environments ELSE {NoEnvironment}

\* initializeProviders, lines 257-267: one addProvider per credential present,
\* in the order OpenAI, Anthropic.
initializeProviders(openai, anthropic) ==
    (IF openai THEN << OpenAIProvider >> ELSE << >>)
    \o (IF anthropic THEN << AnthropicProvider >> ELSE << >>)

RECURSIVE RegistryAfter(_, _)
RegistryAfter(reg, added) ==
    IF added = << >> THEN reg
    ELSE RegistryAfter(RegisterModels(reg, Head(added).models), Tail(added))

RECURSIVE UsageAfter(_, _)
UsageAfter(stats, added) ==
    IF added = << >> THEN stats
    ELSE UsageAfter(InitUsages(stats, Head(added).models), Tail(added))

\* The values of config.ai.fallbackModel and of the task-specific entry.
FallbackModels == {None, "gpt-4o-mini", "claude-3-5-sonnet-20241022"}

TaskSpecificModels == {None}

\* The state after new TaskManager(context): CLI.ts builds the context from the
\* configuration, the constructor creates the ModelManager and registers the
\* providers whose credentials are in the process environment.
InitTask ==
    \E openai \in BOOLEAN, anthropic \in BOOLEAN, fallback \in FallbackModels,
       specific \in TaskSpecificModels, issueNumber \in BOOLEAN :
        LET added == initializeProviders(openai, anthropic)
        IN /\ providers = [k \in ProviderKeys |->
                              IF \E i \in 1..Len(added) : ToLowerCase(added[i].name) = k
                              THEN (CHOOSE n \in {added[i].name : i \in 1..Len(added)} :
                                        ToLowerCase(n) = k)
                              ELSE None]
           /\ modelRegistry = RegistryAfter(<< >>, added)
           /\ usageStats = UsageAfter(<< >>, added)
           /\ taskModelPreferences = initializeDefaultPreferences
           /\ inflight = << >>
           /\ lastOp = [op |-> "init", arg |-> None]
           /\ invoked = {}
           /\ run = NoRun
           /\ selection = NoSelection
           /\ context = [issueNumber |-> issueNumber,
                         modelSelection |->
                             [primary |-> "claude-3-5-sonnet-20241022",
                              fallback |-> fallback,
                              taskSpecific |-> [t \in Tasks |-> specific]]]
           /\ exec = Idle
           /\ snapshot = NoSnapshot
           /\ url = NoUrl
           /\ outcome = NoOutcome
           /\ tally = [valid |-> TRUE, interleaved |-> FALSE,
                       rows |-> UsageAfter(<< >>, added)]

\* The arguments of executeTaskWithOptimalModel that are enumerated.
TaskNames == {"analyze-issue", "no-such-task"}

ParamsModels == {None, "gpt-4o", "claude-3-haiku-20240307", "no-such-model"}

\* Lines 107-112: the constraints taken from params; an absent one is undefined.
TaskRequirements ==
    {NoRequirements} \cup {[NoRequirements EXCEPT !.maxCost = c] : c \in MaxCosts}

TaskParams ==
    [model : ParamsModels, requirements : {NoRequirements}]
    \cup [model : {None}, requirements : TaskRequirements]

TaskFailure(message, modelUsed) ==
    [success |-> FALSE, message |-> message, modelUsed |-> modelUsed]

TaskSuccess(modelUsed) ==
    [success |-> TRUE, message |-> "analyzed successfully", modelUsed |-> modelUsed]

\* Lines 100-113 with the primary model of the context taken before
\* getOptimalModel is asked.
ResolveModelFromPrimary(modelSelection, taskName, params, engine) ==
    IF params.model # None THEN params.model
    ELSE IF modelSelection.taskSpecific[taskName] # None
         THEN modelSelection.taskSpecific[taskName]
         ELSE modelSelection.primary

\* Lines 100-113 as a function of the model selection of the context:
\* params.model, else the task-specific entry, else getOptimalModel.
ResolveModelIn(modelSelection, taskName, params, engine) ==
    IF params.model # None THEN params.model
    ELSE IF modelSelection.taskSpecific[taskName] # None
         THEN modelSelection.taskSpecific[taskName]
         ELSE getOptimalModel(modelRegistry, taskModelPreferences,
                              TaskCategory(taskName), params.requirements, engine)

ResolveModelPreferringContext(taskName, params, engine) ==
    IF context.modelSelection.taskSpecific[taskName] # None
    THEN context.modelSelection.taskSpecific[taskName]
    ELSE IF params.model # None THEN params.model
         ELSE getOptimalModel(modelRegistry, taskModelPreferences,
                              TaskCategory(taskName), params.requirements, engine)

\* Lines 100-113: params.model, else the task-specific entry of the context,
\* else getOptimalModel of the task's category.
ResolveModel(taskName, params, engine) ==
    ResolveModelIn(context.modelSelection, taskName, params, engine)

\* Lines 124 and 141: what the task returned is what the executor returns.
Returned(result) == [exec EXCEPT !.pc = "done", !.result = result]

FallbackAppliesToSameModel(selectedModel) ==
    context.modelSelection.fallback # None

FallbackApplies(selectedModel) ==
    /\ context.modelSelection.fallback # None
    /\ selectedModel # context.modelSelection.fallback

\* Lines 143-148: the message of the result after two raised attempts.
BothTried == "Task failed with both primary and fallback models"

\* Line 154, error.message: reading a property of null or undefined throws a
\* TypeError, outside any try block.
HasNoMessage(thrown) == thrown \in {"null", "undefined"}

\* executeTask, lines 80-88, and executeTaskWithOptimalModel, lines 125-156:
\* the task implementation raised.
Raised(e, thrown) ==
    IF e.attempt = "only"
    THEN [e EXCEPT !.pc = "done",
                   !.result = TaskFailure("Task execution failed", None)]
    ELSE IF e.attempt = "primary"
    THEN IF FallbackApplies(e.selectedModel)
         THEN [e EXCEPT !.pc = "task", !.attempt = "fallback",
                        !.modelInUse = context.modelSelection.fallback]
         ELSE IF HasNoMessage(thrown)
         THEN [e EXCEPT !.pc = "escaped"]
         ELSE [e EXCEPT !.pc = "done",
                        !.result = TaskFailure("Task execution failed", None)]
    ELSE [e EXCEPT !.pc = "done", !.result = TaskFailure(BothTried, None)]

NotFoundAfterSelecting(taskName, params) ==
    [Idle EXCEPT !.pc = "done", !.taskName = taskName, !.params = params,
                 !.selectedModel = "gpt-4o-mini",
                 !.result = TaskFailure("Task not found", None)]

\* Lines 62-68 and 95-98: the task is not in the registry.
NotFound(taskName, params) ==
    [Idle EXCEPT !.pc = "done", !.taskName = taskName, !.params = params,
                 !.result = TaskFailure("Task not found", None)]

\* analyze-issue, line 36: additionalParams.selectedModel, or the task's own
\* default when the caller put none.
TaskModelName(selectedModel) ==
    IF selectedModel # None THEN selectedModel ELSE "claude-3-5-sonnet-20241022"

\* executeTask, lines 58-73: lookup of the task; no model is selected.
executeTask(taskName, environment) ==
    /\ exec.pc \in {"idle", "done", "escaped"}
    /\ taskName \in Tasks => TotalCalls(usageStats) < MaxTaskCalls
    /\ exec' = IF taskName \notin Tasks
               THEN NotFound(taskName, NoParams)
               ELSE [Idle EXCEPT !.pc = "task", !.taskName = taskName,
                                 !.attempt = "only",
                                 !.modelInUse = TaskModelName(None),
                                 !.environment = environment]
    /\ lastOp' = [op |-> "executeTask", arg |-> taskName]
    /\ UNCHANGED <<providers, modelRegistry, taskModelPreferences, usageStats,
                   inflight, invoked, tally, run, selection, context,
                   snapshot, url, outcome>>

ExecuteTask ==
    \E taskName \in TaskNames :
        \E environment \in EnvironmentsOf(taskName) :
            executeTask(taskName, environment)

\* The names lines 100-113 can resolve to, one per engine; none for a task
\* that is not registered, where line 97 has returned.
ResolvedModels(taskName, params) ==
    IF taskName \in Tasks
    THEN {ResolveModel(taskName, params, engine) : engine \in Engines}
    ELSE {None}

\* Lines 91-116: lookup of the task and resolution of the model.
executeTaskWithOptimalModel(taskName, params, environment, selectedModel) ==
    /\ exec.pc \in {"idle", "done", "escaped"}
    /\ taskName \in Tasks => TotalCalls(usageStats) < MaxTaskCalls
    /\ exec' = IF taskName \notin Tasks
               THEN NotFound(taskName, params)
               ELSE [Idle EXCEPT !.pc = "task", !.taskName = taskName,
                                 !.params = params,
                                 !.selectedModel = selectedModel,
                                 !.attempt = "primary",
                                 !.modelInUse = selectedModel,
                                 !.environment = environment]
    /\ lastOp' = [op |-> "executeTaskWithOptimalModel", arg |-> taskName]
    /\ UNCHANGED <<providers, modelRegistry, taskModelPreferences, usageStats,
                   inflight, invoked, tally, run, selection, context,
                   snapshot, url, outcome>>

ExecuteTaskWithOptimalModel ==
    \E taskName \in TaskNames, params \in TaskParams :
        \E selectedModel \in ResolvedModels(taskName, params) :
            \E environment \in EnvironmentsOf(taskName) :
                executeTaskWithOptimalModel(taskName, params, environment,
                                            selectedModel)

\* analyze-issue, lines 30-67: up to the await of executeWithModel. Every
\* failure inside the try block is caught at lines 95-106 and returned.
\* promptLength is the length of the prompt built from the issue.
analyzeIssueStarts(promptLength) ==
    LET modelName == exec.modelInUse
        started == [exec EXCEPT !.invocations = @ + 1]
    IN /\ exec.pc = "task"
       /\ exec.taskName = "analyze-issue"
       /\ exec.environment.thrown = None
       /\ lastOp' = [op |-> "task.execute", arg |-> modelName]
       /\ UNCHANGED <<providers, modelRegistry, taskModelPreferences, usageStats,
                      invoked, tally, run, selection, context,
                   snapshot, url, outcome>>
       /\ IF ~context.issueNumber
          THEN /\ exec' = [started EXCEPT !.pc = "done",
                               !.result = TaskFailure("Issue number required", None)]
               /\ UNCHANGED inflight
          ELSE IF ~exec.environment.github
          THEN /\ exec' = [started EXCEPT !.pc = "done",
                               !.result = TaskFailure("Failed to analyze issue",
                                                      modelName)]
               /\ UNCHANGED inflight
          ELSE IF \/ ~RegistryHas(modelRegistry, modelName)
                  \/ providers[RegistryGet(modelRegistry, modelName).provider] = None
          THEN /\ exec' = [started EXCEPT !.pc = "done",
                               !.result = TaskFailure("Failed to analyze issue",
                                                      modelName)]
               /\ UNCHANGED inflight
          ELSE /\ exec' = [started EXCEPT !.pc = "awaiting", !.requests = @ + 1]
               /\ inflight' = Append(inflight,
                                     [modelName |-> modelName,
                                      model |-> RegistryGet(modelRegistry, modelName),
                                      promptLength |-> promptLength,
                                      caller |-> "task",
                                      clean |-> TRUE,
                                      attempts |-> 1])

AnalyzeIssueStarts ==
    \E promptLength \in PromptLengths : analyzeIssueStarts(promptLength)

\* analyze-issue, lines 67-93: executeWithModel returned; the comment is added
\* and the result reports aiResult.model.
analyzeIssueSucceeds(i, responseLength) ==
    /\ exec.pc = "awaiting"
    /\ exec.taskName = "analyze-issue"
    /\ inflight[i].caller = "task"
    /\ exec.environment.adapter[inflight[i].model.provider] = "ok"
    /\ makeRequestResolves(i, responseLength)
    /\ exec' = [Returned(TaskSuccess(inflight[i].modelName))
                   EXCEPT !.recorded = @ \cup {inflight[i].modelName}]
    /\ UNCHANGED <<context, snapshot, url>>

AnalyzeIssueSucceeds ==
    \E i \in 1..Len(inflight), responseLength \in ResponseLengths :
        analyzeIssueSucceeds(i, responseLength)

\* analyze-issue, lines 95-106: executeWithModel rejected. The catch block reads
\* error.message: of an Error it builds the failure result, of null it raises
\* a TypeError, which leaves the task implementation.
analyzeIssueFails(i) ==
    /\ exec.pc = "awaiting"
    /\ exec.taskName = "analyze-issue"
    /\ inflight[i].caller = "task"
    /\ exec.environment.adapter[inflight[i].model.provider] # "ok"
    /\ makeRequestRejects(i)
    /\ exec' = IF exec.environment.adapter[inflight[i].model.provider] = "error"
               THEN Returned(TaskFailure("Failed to analyze issue",
                                         inflight[i].modelName))
               ELSE Raised(exec, "Error")
    /\ UNCHANGED <<context, snapshot, url, outcome>>

AnalyzeIssueFails == \E i \in 1..Len(inflight) : analyzeIssueFails(i)

\* Lines 74, 123 and 141: the awaited task.execute rejects with the value the
\* replaced implementation throws.
TaskRaises ==
    /\ exec.pc = "task"
    /\ exec.environment.thrown # None
    /\ exec' = Raised([exec EXCEPT !.invocations = @ + 1], exec.environment.thrown)
    /\ lastOp' = [op |-> "task.execute", arg |-> exec.modelInUse]
    /\ UNCHANGED <<providers, modelRegistry, taskModelPreferences, usageStats,
                   inflight, invoked, tally, run, selection, context,
                   snapshot, url, outcome>>

TaskPreferenceNames == {"claude-3-haiku-20240307"}

\* setTaskPreference of the ModelManager handed out by getModelManager (lines
\* 185-187), for the name of a task.
SetPreferenceOfTask ==
    \E taskName \in Tasks \cap TaskNames, modelName \in TaskPreferenceNames :
        setTaskPreference(taskName, modelName)

SetTaskModelNames == {"claude-3-haiku-20240307"}

\* setTaskModel, lines 202-208.
setTaskModel(taskName, modelName) ==
    /\ context' = [context EXCEPT !.modelSelection.taskSpecific[taskName] = modelName]
    /\ lastOp' = [op |-> "setTaskModel", arg |-> taskName]
    /\ UNCHANGED <<providers, modelRegistry, taskModelPreferences, usageStats,
                   inflight, invoked, tally, run, selection, exec, snapshot, url, outcome>>

SetTaskModel ==
    \E taskName \in Tasks \cap TaskNames, modelName \in SetTaskModelNames :
        setTaskModel(taskName, modelName)

\* ------------------------------------------------------------ triage-issues

\* The numbers of open issues getOpenIssues answers with.
OpenIssueCounts == {0, 1, 2}

\* The models triage-issues is asked to run with, and what the world does
\* meanwhile: the shipped implementation, GitHub answering or not, each
\* adapter resolving or rejecting.
TriageParams == [model : {None, "gpt-4o", "no-such-model"}, requirements : {NoRequirements}]

TriageEnvironments == {e \in Environments : e.thrown = None}

ExecuteTriageWithOptimalModel ==
    \E params \in TriageParams :
        \E selectedModel \in ResolvedModels("triage-issues", params) :
            \E environment \in TriageEnvironments :
                executeTaskWithOptimalModel("triage-issues", params, environment,
                                            selectedModel)

\* triage-issues, lines 166-173: the result after the loop, whatever number
\* of issues was triaged.
TriageSuccess(modelUsed) ==
    [success |-> TRUE, message |-> "Triaged issues", modelUsed |-> modelUsed]

\* triage-issues, lines 119-124: getOpenIssues is awaited; when it rejects, the
\* catch of lines 174-183 returns the failure.
triageIssuesStarts(openIssues) ==
    /\ exec.pc = "task"
    /\ exec.taskName = "triage-issues"
    /\ exec.environment.thrown = None
    /\ exec' = IF exec.environment.github
               THEN [exec EXCEPT !.pc = "loop", !.invocations = @ + 1,
                                 !.remaining = Min(openIssues, 20)]
               ELSE [exec EXCEPT !.pc = "done", !.invocations = @ + 1,
                                 !.result = TaskFailure("Triage failed",
                                                        exec.modelInUse)]
    /\ lastOp' = [op |-> "task.execute", arg |-> exec.modelInUse]
    /\ UNCHANGED <<providers, modelRegistry, taskModelPreferences, usageStats,
                   inflight, invoked, tally, run, selection, context, snapshot, url, outcome>>

TriageIssuesStarts == \E openIssues \in OpenIssueCounts : triageIssuesStarts(openIssues)

\* triage-issues, lines 126-146: executeWithModel for the next issue. A lookup
\* that throws is caught at line 160 and the loop goes on.
triageIssueCalls(promptLength) ==
    LET modelName == exec.modelInUse
    IN /\ exec.pc = "loop"
       /\ exec.remaining > 0
       /\ lastOp' = [op |-> "triage:executeWithModel", arg |-> modelName]
       /\ UNCHANGED <<providers, modelRegistry, taskModelPreferences, usageStats,
                      invoked, tally, run, selection, context, snapshot, url, outcome>>
       /\ IF \/ ~RegistryHas(modelRegistry, modelName)
             \/ providers[RegistryGet(modelRegistry, modelName).provider] = None
          THEN /\ exec' = [exec EXCEPT !.remaining = @ - 1]
               /\ UNCHANGED inflight
          ELSE /\ exec' = [exec EXCEPT !.pc = "awaiting", !.requests = @ + 1]
               /\ inflight' = Append(inflight,
                                     [modelName |-> modelName,
                                      model |-> RegistryGet(modelRegistry, modelName),
                                      promptLength |-> promptLength,
                                      caller |-> "task",
                                      clean |-> TRUE,
                                      attempts |-> 1])

TriageIssueCalls == \E promptLength \in PromptLengths : triageIssueCalls(promptLength)

\* triage-issues, lines 146-159: executeWithModel returned; the response is
\* parsed and the labels are added, and a failure of either is caught at line
\* 160 as well. The loop goes on with the next issue.
triageCallResolves(i, responseLength) ==
    /\ exec.pc = "awaiting"
    /\ exec.taskName = "triage-issues"
    /\ inflight[i].caller = "task"
    /\ exec.environment.adapter[inflight[i].model.provider] = "ok"
    /\ makeRequestResolves(i, responseLength)
    /\ exec' = [exec EXCEPT !.pc = "loop", !.remaining = @ - 1,
                            !.recorded = @ \cup {inflight[i].modelName}]
    /\ UNCHANGED <<context, snapshot, url>>

TriageCallResolves ==
    \E i \in 1..Len(inflight), responseLength \in ResponseLengths :
        triageCallResolves(i, responseLength)

\* triage-issues, lines 160-162: executeWithModel rejected; the error is logged
\* and the loop goes on.
triageCallRejects(i) ==
    /\ exec.pc = "awaiting"
    /\ exec.taskName = "triage-issues"
    /\ inflight[i].caller = "task"
    /\ exec.environment.adapter[inflight[i].model.provider] # "ok"
    /\ makeRequestRejects(i)
    /\ exec' = [exec EXCEPT !.pc = "loop", !.remaining = @ - 1]
    /\ UNCHANGED <<context, snapshot, url, outcome>>

TriageCallRejects == \E i \in 1..Len(inflight) : triageCallRejects(i)

\* triage-issues, lines 165-173: the loop is over.
TriageIssuesReturns ==
    /\ exec.pc = "loop"
    /\ exec.remaining = 0
    /\ exec' = Returned(TriageSuccess(exec.modelInUse))
    /\ lastOp' = [op |-> "triage:return", arg |-> exec.modelInUse]
    /\ UNCHANGED <<providers, modelRegistry, taskModelPreferences, usageStats,
                   inflight, invoked, tally, run, selection, context, snapshot, url, outcome>>

NextTriage ==
    \/ ExecuteTriageWithOptimalModel
    \/ TriageIssuesStarts
    \/ TriageIssueCalls
    \/ TriageCallResolves
    \/ TriageCallRejects
    \/ TriageIssuesReturns

SpecTriage == InitTask /\ [][NextTriage]_vars

\* The names switchPrimaryModel is called with.
PrimaryModelNames == {"gpt-4o", "no-such-model"}

\* switchPrimaryModel, lines 197-200.
switchPrimaryModel(modelName) ==
    /\ context' = [context EXCEPT !.modelSelection.primary = modelName]
    /\ lastOp' = [op |-> "switchPrimaryModel", arg |-> modelName]
    /\ UNCHANGED <<providers, modelRegistry, taskModelPreferences, usageStats,
                   inflight, invoked, tally, run, selection, exec, snapshot, url,
                   outcome>>

SwitchPrimaryModel ==
    \E modelName \in PrimaryModelNames : switchPrimaryModel(modelName)

\* The configuration of the TaskManager as its setters change it, before a
\* task is executed.
NextSwitch ==
    \/ SwitchPrimaryModel
    \/ SetTaskModel
    \/ SetPreferenceOfTask

SpecSwitch == InitTask /\ [][NextSwitch]_vars

NextTask ==
    \/ ExecuteTask
    \/ SetTaskModel
    \/ SetPreferenceOfTask
    \/ ExecuteTaskWithOptimalModel
    \/ AnalyzeIssueStarts
    \/ AnalyzeIssueSucceeds
    \/ AnalyzeIssueFails
    \/ TaskRaises

SpecTask == InitTask /\ [][NextTask]_vars

\* ---------------------------------------------------------------- urlParser

\* A string is the sequence of its characters.
Chars(parts) ==
    LET RECURSIVE Concat(_)
        Concat(i) == IF i > Len(parts) THEN << >> ELSE parts[i] \o Concat(i + 1)
    IN Concat(1)

Digits == {"0", "1", "2", "3", "4", "5", "6", "7", "8", "9"}

\* The elements of the four regular expressions of lines 14-23: a literal, an
\* optional character (s? and \/?), and a greedy capturing group over a
\* character class ([^/]+ and \d+). Every expression is anchored by ^ and $.
Lit(chars) == [kind |-> "lit", chars |-> chars, class |-> "none"]
Opt(char) == [kind |-> "opt", chars |-> <<char>>, class |-> "none"]
Group(class) == [kind |-> "group", chars |-> << >>, class |-> class]

InClass(char, class) ==
    IF class = "digit" THEN char \in Digits ELSE char # "/"

GitHubCom == << "g", "i", "t", "h", "u", "b", ".", "c", "o", "m" >>

IssuesPath == << "/", "i", "s", "s", "u", "e", "s", "/" >>

\* Lines 14-23 without the fourth expression, owner/repo#123.
PatternsWithoutHashForm ==
    << << Lit(<< "h", "t", "t", "p" >>), Opt("s"), Lit(<< ":", "/", "/" >>), Lit(GitHubCom), Lit(<<"/">>),
          Group("notSlash"), Lit(<<"/">>), Group("notSlash"), Lit(IssuesPath),
          Group("digit"), Opt("/") >>,
       << Lit(GitHubCom), Lit(<<"/">>),
          Group("notSlash"), Lit(<<"/">>), Group("notSlash"), Lit(IssuesPath),
          Group("digit"), Opt("/") >>,
       << Group("notSlash"), Lit(<<"/">>), Group("notSlash"), Lit(IssuesPath),
          Group("digit") >> >>

\* Lines 14-23: the four expressions, in the order they are tried.
Patterns ==
    << << Lit(<< "h", "t", "t", "p" >>), Opt("s"), Lit(<< ":", "/", "/" >>), Lit(GitHubCom), Lit(<<"/">>),
          Group("notSlash"), Lit(<<"/">>), Group("notSlash"), Lit(IssuesPath),
          Group("digit"), Opt("/") >>,
       << Lit(GitHubCom), Lit(<<"/">>),
          Group("notSlash"), Lit(<<"/">>), Group("notSlash"), Lit(IssuesPath),
          Group("digit"), Opt("/") >>,
       << Group("notSlash"), Lit(<<"/">>), Group("notSlash"), Lit(IssuesPath),
          Group("digit") >>,
       << Group("notSlash"), Lit(<<"/">>), Group("notSlash"), Lit(<<"#">>),
          Group("digit") >> >>

\* input.match(pattern), line 26: the captures of the first way the
\* backtracking matcher finds to match the whole input, every group taking as
\* many characters as it can and giving them back one by one; << >> when
\* there is none.
RECURSIVE MatchFrom(_, _, _, _, _)
MatchFrom(pattern, k, input, pos, captures) ==
    IF k > Len(pattern)
    THEN IF pos = Len(input) + 1 THEN captures ELSE << >>
    ELSE
      LET e == pattern[k]
          n == Len(e.chars)
          RECURSIVE RunLength(_)
          RunLength(i) ==
              IF i <= Len(input) /\ InClass(input[i], e.class)
              THEN 1 + RunLength(i + 1) ELSE 0
          RECURSIVE Try(_)
          Try(len) ==
              IF len = 0 THEN << >>
              ELSE LET r == MatchFrom(pattern, k + 1, input, pos + len,
                                      Append(captures,
                                             SubSeq(input, pos, pos + len - 1)))
                   IN IF r # << >> THEN r ELSE Try(len - 1)
      IN CASE e.kind = "lit" ->
                  IF /\ pos + n - 1 <= Len(input)
                     /\ SubSeq(input, pos, pos + n - 1) = e.chars
                  THEN MatchFrom(pattern, k + 1, input, pos + n, captures)
                  ELSE << >>
           [] e.kind = "opt" ->
                  LET taken == IF pos <= Len(input) /\ input[pos] = e.chars[1]
                               THEN MatchFrom(pattern, k + 1, input, pos + 1,
                                              captures)
                               ELSE << >>
                  IN IF taken # << >> THEN taken
                     ELSE MatchFrom(pattern, k + 1, input, pos, captures)
           [] e.kind = "group" -> Try(RunLength(pos))

Match(input, pattern) == MatchFrom(pattern, 1, input, 1, << >>)

DigitValue(char) ==
    CASE char = "0" -> 0 [] char = "1" -> 1 [] char = "2" -> 2 [] char = "3" -> 3
      [] char = "4" -> 4 [] char = "5" -> 5 [] char = "6" -> 6 [] char = "7" -> 7
      [] char = "8" -> 8 [] char = "9" -> 9

\* parseInt(match[3], 10) of a string of decimal digits.
RECURSIVE parseInt(_)
parseInt(digits) ==
    IF digits = << >> THEN 0
    ELSE 10 * parseInt(SubSeq(digits, 1, Len(digits) - 1))
         + DigitValue(digits[Len(digits)])

\* Lines 12-37: the captures of the first expression that matches, or null.
parseGitHubURL(input) ==
    LET RECURSIVE FirstMatch(_)
        FirstMatch(i) ==
            IF i > Len(Patterns) THEN Null
            ELSE LET match == Match(input, Patterns[i])
                 IN IF match # << >>
                    THEN [owner |-> match[1], repo |-> match[2],
                          issueNumber |-> parseInt(match[3])]
                    ELSE FirstMatch(i + 1)
    IN FirstMatch(1)

\* Lines 63-65.
isGitHubURL(input) == parseGitHubURL(input) # Null

\* The inputs the parser is given: a beginning, an owner, a separator, a
\* repository, what stands before the number, a number and an end, each
\* taken well formed or not.
UrlStarts ==
    { << >>, << "h", "t", "t", "p", "s", ":", "/", "/", "g", "i", "t", "h", "u", "b", ".", "c", "o", "m", "/" >>,
      << "h", "t", "t", "p", ":", "/", "/", "g", "i", "t", "h", "u", "b", ".", "c", "o", "m", "/" >>,
      << "g", "i", "t", "h", "u", "b", ".", "c", "o", "m", "/" >>,
      << "h", "t", "t", "p", "s", ":", "/", "/", "e", "x", "a", "m", "p", "l", "e", ".", "c", "o", "m", "/" >>,
      << "f", "t", "p", ":", "/", "/", "g", "i", "t", "h", "u", "b", ".", "c", "o", "m", "/" >> }

UrlOwners == { << "o" >>, << >>, << "a", "#", "1" >> }

UrlSeparators == { <<"/">>, << >> }

UrlRepos == { << "r" >>, << >>, << "r", "#", "2" >> }

UrlMiddles == { << "/", "i", "s", "s", "u", "e", "s", "/" >>, << "#" >>, << "/", "p", "u", "l", "l", "/" >>, << >> }

UrlNumbers == { << "7" >>, << "0", "0", "7" >>, << "1", "2" >>, << >>, << "7", "a" >> }

UrlEnds == { << >>, << "/" >>, << "/", "x" >> }

UrlInputs ==
    { Chars(<<start, owner, separator, repo, middle, number, end>>) :
        start \in UrlStarts, owner \in UrlOwners, separator \in UrlSeparators,
        repo \in UrlRepos, middle \in UrlMiddles, number \in UrlNumbers,
        end \in UrlEnds }

InitUrl ==
    /\ providers = [k \in ProviderKeys |-> None]
    /\ modelRegistry = << >>
    /\ taskModelPreferences = initializeDefaultPreferences
    /\ usageStats = << >>
    /\ inflight = << >>
    /\ lastOp = [op |-> "init", arg |-> None]
    /\ invoked = {}
    /\ run = NoRun
    /\ selection = NoSelection
    /\ context = NoContext
    /\ exec = Idle
    /\ snapshot = NoSnapshot
    /\ outcome = NoOutcome
    /\ tally = [valid |-> TRUE, interleaved |-> FALSE, rows |-> << >>]
    /\ \E input \in UrlInputs : url = [NoUrl EXCEPT !.input = input]

ParseGitHubURL ==
    /\ "parseGitHubURL" \notin url.called
    /\ url' = [url EXCEPT !.called = @ \cup {"parseGitHubURL"},
                          !.result = parseGitHubURL(url.input)]
    /\ lastOp' = [op |-> "parseGitHubURL", arg |-> None]
    /\ UNCHANGED <<providers, modelRegistry, taskModelPreferences, usageStats,
                   inflight, invoked, tally, run, selection, context, exec, snapshot,
                   outcome>>

IsGitHubURL ==
    /\ "isGitHubURL" \notin url.called
    /\ url' = [url EXCEPT !.called = @ \cup {"isGitHubURL"},
                          !.isUrl = isGitHubURL(url.input)]
    /\ lastOp' = [op |-> "isGitHubURL", arg |-> None]
    /\ UNCHANGED <<providers, modelRegistry, taskModelPreferences, usageStats,
                   inflight, invoked, tally, run, selection, context, exec, snapshot,
                   outcome>>

NextUrl ==
    \/ ParseGitHubURL
    \/ IsGitHubURL

SpecUrl == InitUrl /\ [][NextUrl]_vars

\* ------------------------------------------------------------------ ledger

Plus(a, n, tokens, cost) ==
    [calls |-> a.calls + n, tokens |-> a.tokens + tokens, cost |-> a.cost + cost]

\* C1: after a run of N successful executeWithModel calls against a
\* registered model m with nothing else in between, m's usage record is the
\* record the run started from plus N calls, the sum of the calls' token
\* estimates and the sum of (estimate * m.costPerToken); from a zeroed record,
\* calls = N, tokens = sum t_i and cost = sum t_i * m.costPerToken.
UsageAccumulatesOverRun ==
    run.model # None =>
        /\ UsageHas(usageStats, run.model)
        /\ UsageGet(usageStats, run.model)
               = Plus(run.base, run.n, run.tokens, run.cost)
        /\ run.base = ZeroStats =>
               UsageGet(usageStats, run.model)
                   = [calls |-> run.n, tokens |-> run.tokens, cost |-> run.cost]

\* Two successful calls with different estimates (2 and 4 tokens) against a
\* freshly registered gpt-4o: calls = 2, tokens = 6, cost = 720.
TwoCallsAccounted ==
    /\ run = [model |-> "gpt-4o", n |-> 2, tokens |-> 6, cost |-> 720,
              base |-> ZeroStats]
    /\ UsageGet(usageStats, "gpt-4o") = [calls |-> 2, tokens |-> 6, cost |-> 720]

IsExecuteStep(op) ==
    op \in {"executeWithModel:notFound", "executeWithModel:notConfigured",
            "executeWithModel:call", "executeWithModel:failed",
            "executeWithModel:returned"}

\* C2: a step of executeWithModel changes the usage records if and only if it
\* is the return of a call whose adapter request succeeded: a failed request
\* (and a lookup that throws, and the call of the adapter) leaves every record
\* as it was, and a success adds exactly one call to the target's record and
\* leaves the other records alone.
UsageUpdatedIffAdapterSucceeds ==
    [][IsExecuteStep(lastOp'.op) =>
          IF lastOp'.op = "executeWithModel:returned"
          THEN /\ UsageNames(usageStats') = UsageNames(usageStats)
               /\ \A name \in UsageNames(usageStats) :
                     UsageGet(usageStats', name).calls
                         = UsageGet(usageStats, name).calls
                           + (IF name = lastOp'.arg THEN 1 ELSE 0)
          ELSE usageStats' = usageStats]_vars

\* A request for gpt-4o has just failed while its record holds one earlier call.
FailedCallAfterSuccess ==
    /\ lastOp = [op |-> "executeWithModel:failed", arg |-> "gpt-4o"]
    /\ UsageGet(usageStats, "gpt-4o").calls = 1

\* C17: executeWithModel of a name absent from the registry fails with the
\* model-not-found error, and of a registered model whose provider key has no
\* registered provider with the provider-not-configured error; in both cases
\* no adapter is called and no usage record changes.
LookupFailuresHaveNoEffect ==
    [][lastOp'.op \in {"executeWithModel:notFound", "executeWithModel:notConfigured",
                       "executeWithModel:call"}
       => /\ ~RegistryHas(modelRegistry, lastOp'.arg)
             => lastOp'.op = "executeWithModel:notFound"
          /\ (/\ RegistryHas(modelRegistry, lastOp'.arg)
              /\ providers[RegistryGet(modelRegistry, lastOp'.arg).provider] = None)
             => lastOp'.op = "executeWithModel:notConfigured"
          /\ lastOp'.op # "executeWithModel:call"
             => UNCHANGED <<usageStats, inflight, invoked, tally>>]_vars

\* executeWithModel was refused for a registered model whose provider key
\* belongs to no registered provider.
RegisteredModelWithoutProvider ==
    /\ lastOp.op = "executeWithModel:notConfigured"
    /\ UsageHas(usageStats, lastOp.arg)
    /\ UsageGet(usageStats, lastOp.arg) = ZeroStats

\* C3: over registrations and executeWithModel calls no usage counter of a
\* model ever decreases.
UsageCountersNeverDecrease ==
    [][\A name \in UsageNames(usageStats) :
          /\ UsageHas(usageStats', name)
          /\ UsageGet(usageStats', name).calls >= UsageGet(usageStats, name).calls
          /\ UsageGet(usageStats', name).tokens >= UsageGet(usageStats, name).tokens
          /\ UsageGet(usageStats', name).cost >= UsageGet(usageStats, name).cost]_vars

ProviderNamed(name) == CHOOSE p \in ProviderCatalog : p.name = name

\* C4: addProvider creates a zeroed usage record only for a model name that has
\* none: the records of names already known are left as they were, and the
\* registry entry of each declared name is the registering provider's model.
AddProviderKeepsExistingUsage ==
    [][lastOp'.op = "addProvider" =>
          LET declared == SeqToSet(ProviderNamed(lastOp'.arg).models)
          IN /\ \A name \in UsageNames(usageStats) :
                   UsageGet(usageStats', name) = UsageGet(usageStats, name)
             /\ \A m \in declared :
                   /\ RegistryGet(modelRegistry', m.name) = m
                   /\ ~UsageHas(usageStats, m.name) =>
                          UsageGet(usageStats', m.name) = ZeroStats]_vars

\* C5: the names with a usage record are the names in the registry,
\* getUsageStats has exactly one row for each, and the row of a model that was
\* never successfully invoked is all zero.
OneUsageRowPerRegisteredModel ==
    /\ UsageNames(usageStats) = RegistryNames(modelRegistry)
    /\ \A name \in RegistryNames(modelRegistry) :
          Cardinality({i \in 1..Len(getUsageStats) :
                          getUsageStats[i].model = name}) = 1
    /\ Len(getUsageStats) = Cardinality(RegistryNames(modelRegistry))
    /\ \A i \in 1..Len(getUsageStats) :
          getUsageStats[i].model \notin invoked =>
              /\ getUsageStats[i].calls = 0
              /\ getUsageStats[i].tokens = 0
              /\ getUsageStats[i].cost = 0

\* C22: getUsageStats returns one row per usage record, in the order the
\* models were registered, and the rows are copies: a write of the caller to a
\* returned row or to the returned array leaves the ledger as it was, and the
\* next getUsageStats returns the accumulated values again.
UsageStatsReturnsCopy ==
    [][/\ lastOp'.op = "getUsageStats"
          => /\ Len(snapshot'.returned) = Len(modelRegistry)
             /\ \A i \in 1..Len(modelRegistry) :
                    /\ snapshot'.returned[i].model = modelRegistry[i].name
                    /\ snapshot'.returned[i]
                           = UsageRow(modelRegistry[i].name,
                                      UsageGet(usageStats, modelRegistry[i].name))
             /\ snapshot # NoSnapshot => snapshot'.returned = snapshot.returned
       /\ lastOp'.op = "caller:write" => UNCHANGED usageStats]_vars

\* The rows were asked for again after the caller had overwritten the row of
\* a model with recorded calls, between two models without any.
RowsReadAgainAfterWrite ==
    /\ lastOp = [op |-> "getUsageStats", arg |-> "after write"]
    /\ Len(snapshot.returned) >= 3
    /\ snapshot.returned[1].calls = 0
    /\ snapshot.returned[2].calls = 2
    /\ snapshot.returned[2].tokens > 0

\* C26: one invocation of executeWithModel calls makeRequest of the provider
\* at most once: when the adapter call fails, the invocation ends with the
\* error after that one attempt, and no invocation is ever at a second one.
NoRetryOfAdapterCall ==
    [][/\ \A i \in 1..Len(inflight') : inflight'[i].attempts = 1
       /\ lastOp'.op = "executeWithModel:failed"
          => Len(inflight') = Len(inflight) - 1]_vars

\* The request of one of two invocations in flight has failed; the other
\* invocation is still at its first request.
FailedOnceWhileAnotherInFlight ==
    /\ lastOp.op = "executeWithModel:failed"
    /\ Len(inflight) = 1
    /\ inflight[1].attempts = 1
    /\ UsageGet(usageStats, lastOp.arg).calls = 0

\* The least whole number of four-character tokens that hold n characters.
Ceil4(n) == CHOOSE k \in 0..n : 4 * k >= n /\ (k = 0 \/ 4 * (k - 1) < n)

\* C27: the token estimate of a successful executeWithModel call is
\* ceil(len(prompt) / 4) + ceil(len(response) / 4) whatever the provider and
\* the model, the returned cost is tokensUsed * costPerToken of the model the
\* call looked up, and the returned tokensUsed and cost are exactly what the
\* call added to the usage record of the model, next to one call.
OutcomeIsWhatWasRecorded ==
    [][lastOp'.op = "executeWithModel:returned" =>
          /\ outcome'.model = lastOp'.arg
          /\ outcome'.tokensUsed
                 = Ceil4(outcome'.promptLength) + Ceil4(outcome'.responseLength)
          /\ outcome'.cost = outcome'.tokensUsed * outcome'.rate
          /\ UsageGet(usageStats', outcome'.model)
                 = Plus(UsageGet(usageStats, outcome'.model), 1,
                        outcome'.tokensUsed, outcome'.cost)]_vars

\* A call of gpt-4o with a prompt of 5 and a response of 7 characters has
\* returned 4 tokens at 480 units, after an earlier call of 2 tokens.
SecondCallReturnedFourTokens ==
    /\ lastOp = [op |-> "executeWithModel:returned", arg |-> "gpt-4o"]
    /\ outcome = [model |-> "gpt-4o", tokensUsed |-> 4, cost |-> 480,
                  promptLength |-> 5, responseLength |-> 7, rate |-> 120]
    /\ UsageGet(usageStats, "gpt-4o") = [calls |-> 2, tokens |-> 6, cost |-> 720]

\* C28: when several executeWithModel calls are in flight at once and end in
\* any order, no update of the ledger is lost: once all of them have ended,
\* calls of each model is the number of its successful calls and tokens is
\* the sum of their estimates.
NoLedgerUpdateLost ==
    (tally.valid /\ inflight = << >>) =>
        /\ Len(usageStats) = Len(tally.rows)
        /\ \A i \in 1..Len(usageStats) :
              /\ usageStats[i].model = tally.rows[i].model
              /\ usageStats[i].calls = tally.rows[i].calls
              /\ usageStats[i].tokens = tally.rows[i].tokens

\* Two calls of gpt-4o were in flight together and both have succeeded, with
\* estimates of 2 and 4 tokens.
TwoInterleavedCallsCounted ==
    /\ tally.valid
    /\ tally.interleaved
    /\ inflight = << >>
    /\ UsageGet(usageStats, "gpt-4o") = [calls |-> 2, tokens |-> 6, cost |-> 720]

\* C29: a successful executeWithModel call on model m changes the usage
\* record of m and nothing else: the records of the other models and their
\* order, the model registry, the provider map and the task preference map
\* are as before.
SuccessfulCallChangesOnlyItsRecord ==
    [][lastOp'.op = "executeWithModel:returned" =>
          /\ UNCHANGED <<modelRegistry, providers, taskModelPreferences>>
          /\ Len(usageStats') = Len(usageStats)
          /\ \A i \in 1..Len(usageStats) :
                 IF usageStats[i].model = lastOp'.arg
                 THEN /\ usageStats'[i].model = lastOp'.arg
                      /\ usageStats'[i].calls = usageStats[i].calls + 1
                 ELSE usageStats'[i] = usageStats[i]]_vars

\* A call of gpt-4o-mini has returned while the record of gpt-4o, registered
\* before it, holds a call of its own.
CallReturnedNextToUsedRecord ==
    /\ lastOp = [op |-> "executeWithModel:returned", arg |-> "gpt-4o-mini"]
    /\ UsageGet(usageStats, "gpt-4o").calls = 1
    /\ UsageGet(usageStats, "gpt-4o").tokens > 0
    /\ UsageGet(usageStats, "gpt-4o-mini").calls = 1
    /\ Len(usageStats) = 5

\* C25: in every reachable state the usage record of each model satisfies
\* cost = tokens * costPerToken of the model now registered under that name,
\* also after a second provider has registered the name again with another
\* rate.
CostIsTokensAtRegisteredRate ==
    \A name \in UsageNames(usageStats) :
        /\ RegistryHas(modelRegistry, name)
        /\ UsageGet(usageStats, name).cost
               = UsageGet(usageStats, name).tokens
                 * RegistryGet(modelRegistry, name).costPerToken

\* gpt-4o has been called, gpt-4o-mini is registered and was never called.
UncalledModelNextToCalledOne ==
    /\ "gpt-4o" \in invoked
    /\ UsageGet(usageStats, "gpt-4o").calls > 0
    /\ "gpt-4o-mini" \in RegistryNames(modelRegistry) \ invoked


\* --------------------------------------------------------- selector claims

Selected == selection.taskType # None

\* A registered model that meets every requirement of the request.
Meets(m, requirements) ==
    /\ requirements.needsVision => m.supports.vision
    /\ requirements.needsFunctionCalling => m.supports.functionCalling
    /\ requirements.maxCost # NoMaxCost => m.costPerToken <= requirements.maxCost

Registered == {modelRegistry[i] : i \in 1..Len(modelRegistry)}

\* C6: getOptimalModel with needsVision never returns the name of a registered
\* model without vision, and with needsFunctionCalling never one without
\* function calling, whatever the registry and the preferences are.
CapabilityConstraintsRespected ==
    Selected /\ RegistryHas(modelRegistry, selection.result) =>
        LET m == RegistryGet(modelRegistry, selection.result)
        IN /\ selection.requirements.needsVision => m.supports.vision
           /\ selection.requirements.needsFunctionCalling => m.supports.functionCalling

PreferenceSet(taskType) ==
    /\ taskModelPreferences[taskType] # None
    /\ taskModelPreferences[taskType] # initializeDefaultPreferences[taskType]

WithoutPreference(taskType) == [taskModelPreferences EXCEPT ![taskType] = None]

\* C8 as claimed: after setTaskPreference(t, x) with x not registered,
\* getOptimalModel(t, constraints) does not return x and returns what it
\* returns with no preference set for t.
UnregisteredPreferenceNotReturned ==
    /\ Selected
    /\ PreferenceSet(selection.taskType)
    /\ ~RegistryHas(modelRegistry, taskModelPreferences[selection.taskType])
    => /\ selection.result # taskModelPreferences[selection.taskType]
       /\ \E engine \in Engines :
              selection.result
                  = getOptimalModel(modelRegistry, WithoutPreference(selection.taskType),
                                    selection.taskType, selection.requirements, engine)

\* C8 as amended: after setTaskPreference(t, x) with x not registered,
\* getOptimalModel(t, constraints) returns what it returns with no preference
\* set for t; it returns x only when x is the default name "gpt-4o-mini" and
\* no registered model meets the request.
UnregisteredPreferenceFallsThrough ==
    /\ Selected
    /\ PreferenceSet(selection.taskType)
    /\ ~RegistryHas(modelRegistry, taskModelPreferences[selection.taskType])
    => /\ \E engine \in Engines :
              selection.result
                  = getOptimalModel(modelRegistry, WithoutPreference(selection.taskType),
                                    selection.taskType, selection.requirements, engine)
       /\ selection.result = taskModelPreferences[selection.taskType] =>
              /\ selection.result = DefaultModel
              /\ \A m \in Registered : ~Meets(m, selection.requirements)

\* The preference for "analysis" names a model of a provider that is not
\* registered, and the best registered model is returned instead.
UnregisteredPreferenceSkipped ==
    /\ Selected
    /\ selection.taskType = "analysis"
    /\ taskModelPreferences["analysis"] = "claude-3-haiku-20240307"
    /\ ~RegistryHas(modelRegistry, "claude-3-haiku-20240307")
    /\ selection.result = "gpt-4o"

\* No preference applies to the selection: none is set for the task type, or
\* the one set is not among the surviving candidates.
NoPreferenceApplies ==
    \/ taskModelPreferences[selection.taskType] = None
    \/ \A m \in Registered :
          Meets(m, selection.requirements)
              => m.name # taskModelPreferences[selection.taskType]

Survivors == {m \in Registered : Meets(m, selection.requirements)}

\* excellent = 4 > high = 3 > medium = 2 > low = 1, and 0 without a tag.
Strength(m, taskType) ==
    IF \E i \in 1..Len(m.capabilities) : m.capabilities[i].type = taskType
    THEN LET i == CHOOSE i \in 1..Len(m.capabilities) :
                      /\ m.capabilities[i].type = taskType
                      /\ \A j \in 1..(i - 1) : m.capabilities[j].type # taskType
         IN CASE m.capabilities[i].strength = "excellent" -> 4
              [] m.capabilities[i].strength = "high" -> 3
              [] m.capabilities[i].strength = "medium" -> 2
              [] m.capabilities[i].strength = "low" -> 1
    ELSE 0

\* C18: when no preference applies, getOptimalModel returns a surviving
\* candidate whose capability strength for the task type is maximal among the
\* survivors; a candidate without a tag for the task type is never returned
\* while a surviving candidate has one.
StrongestCandidateReturned ==
    (Selected /\ NoPreferenceApplies /\ Survivors # {}) =>
        \E m \in Survivors :
            /\ m.name = selection.result
            /\ \A o \in Survivors :
                   Strength(o, selection.taskType) <= Strength(m, selection.taskType)

\* C19: among the surviving candidates tied on capability strength for the
\* task type, getOptimalModel returns the one of lowest costPerToken when
\* preferSpeed is set and the one registered earliest when it is not.
TieBrokenByCostOrRegistryOrder ==
    (Selected /\ NoPreferenceApplies /\ Survivors # {}) =>
        \E m \in Survivors :
            /\ m.name = selection.result
            /\ \A o \in Survivors :
                   Strength(o, selection.taskType) = Strength(m, selection.taskType)
                   => IF selection.requirements.preferSpeed
                      THEN m.costPerToken <= o.costPerToken
                      ELSE RegistryIndex(modelRegistry, m.name)
                               <= RegistryIndex(modelRegistry, o.name)

\* C20: when no candidate is left after filtering (an empty registry
\* included), getOptimalModel returns the fixed name "gpt-4o-mini", registered
\* or not; when it is not registered, executeWithModel of that name fails
\* with model-not-found and changes no usage record.
DefaultReturnedWhenNoCandidate ==
    [][/\ (selection'.taskType # None /\ Survivors' = {})
          => selection'.result = DefaultModel
       /\ (/\ lastOp'.op \in {"executeWithModel:notFound",
                               "executeWithModel:notConfigured",
                               "executeWithModel:call"}
           /\ lastOp'.arg = DefaultModel
           /\ ~RegistryHas(modelRegistry, DefaultModel))
          => /\ lastOp'.op = "executeWithModel:notFound"
             /\ UNCHANGED <<usageStats, inflight, invoked, tally>>]_vars

\* The default was returned for a registry none of whose models met the
\* request and that does not hold the default, and executing it was refused.
UnregisteredDefaultRefused ==
    /\ lastOp = [op |-> "executeWithModel:notFound", arg |-> DefaultModel]
    /\ selection.taskType # None
    /\ selection.result = DefaultModel
    /\ modelRegistry # << >>
    /\ Survivors = {}

\* C21: getOptimalModel has no side effects: a call leaves the model registry
\* (contents and iteration order), the provider map, the task preference map
\* and every usage record unchanged, and a second call with the same
\* arguments on the same state returns the same name.
SelectionHasNoSideEffects ==
    [][lastOp'.op = "getOptimalModel" =>
          /\ UNCHANGED <<modelRegistry, providers, taskModelPreferences, usageStats>>
          /\ lastOp'.arg = "again" => selection'.result = selection.result]_vars

\* The second of two calls that ranked four candidates, one of them without
\* the tag, into an order other than the registry's.
RankedTwiceFromUnsortedRegistry ==
    /\ lastOp = [op |-> "getOptimalModel", arg |-> "again"]
    /\ selection.taskType = "analysis"
    /\ selection.requirements.preferSpeed
    /\ Len(modelRegistry) >= 4
    /\ RegistryHas(modelRegistry, "dall-e-3")
    /\ selection.result # modelRegistry[1].name

\* C9: when the preferred model of the task type is registered and passes the
\* filters it is returned, whatever its strength and cost and whether or not
\* preferSpeed is set; when it is registered and a filter eliminates it, it is
\* not returned.
PreferenceOverridesRanking ==
    Selected /\ taskModelPreferences[selection.taskType] # None
             /\ RegistryHas(modelRegistry, taskModelPreferences[selection.taskType]) =>
        LET preferred == taskModelPreferences[selection.taskType]
            m == RegistryGet(modelRegistry, preferred)
        IN IF Meets(m, selection.requirements)
           THEN selection.result = preferred
           ELSE selection.result # preferred

\* --------------------------------------------------------- urlParser claims

\* The pieces of a string between its slashes.
RECURSIVE Split(_)
Split(chars) ==
    IF \A i \in 1..Len(chars) : chars[i] # "/" THEN <<chars>>
    ELSE LET i == CHOOSE i \in 1..Len(chars) :
                      chars[i] = "/" /\ \A j \in 1..(i - 1) : chars[j] # "/"
         IN <<SubSeq(chars, 1, i - 1)>> \o Split(SubSeq(chars, i + 1, Len(chars)))

IsNumber(chars) == chars # << >> /\ \A i \in 1..Len(chars) : chars[i] \in Digits

\* The number a string of decimal digits denotes, read from the left.
Decimal(chars) ==
    LET RECURSIVE Read(_, _)
        Read(i, value) ==
            IF i > Len(chars) THEN value
            ELSE Read(i + 1, 10 * value + DigitValue(chars[i]))
    IN Read(1, 0)

\* o/r/issues/N as the pieces <<o, r, issues, N>>.
LongReference(pieces) ==
    IF /\ Len(pieces) = 4
       /\ pieces[1] # << >>
       /\ pieces[2] # << >>
       /\ pieces[3] = << "i", "s", "s", "u", "e", "s" >>
       /\ IsNumber(pieces[4])
    THEN [owner |-> pieces[1], repo |-> pieces[2],
          issueNumber |-> Decimal(pieces[4])]
    ELSE Null

\* o/r#N as the pieces <<o, r#N>>: the number follows the last #.
ShortReference(pieces) ==
    IF Len(pieces) = 2 /\ pieces[1] # << >>
          /\ \E h \in 1..Len(pieces[2]) : pieces[2][h] = "#"
    THEN LET t == pieces[2]
             h == CHOOSE h \in 1..Len(t) :
                      t[h] = "#" /\ \A j \in (h + 1)..Len(t) : t[j] # "#"
         IN IF h > 1 /\ IsNumber(SubSeq(t, h + 1, Len(t)))
            THEN [owner |-> pieces[1], repo |-> SubSeq(t, 1, h - 1),
                  issueNumber |-> Decimal(SubSeq(t, h + 1, Len(t)))]
            ELSE Null
    ELSE Null

\* What an issue reference denotes when the URL forms may begin with one of
\* the schemes and, with trailingSlash, may end in a slash; Null for a string
\* that is no issue reference.
Reference(input, schemes, trailingSlash) ==
    LET pieces == Split(input)
        n == Len(pieces)
        ended == trailingSlash /\ n > 1 /\ pieces[n] = << >>
        m == IF ended THEN n - 1 ELSE n
    IN IF m = 7 /\ pieces[1] \in schemes /\ pieces[2] = << >>
             /\ pieces[3] = GitHubCom
       THEN LongReference(SubSeq(pieces, 4, 7))
       ELSE IF m = 5 /\ pieces[1] = GitHubCom
       THEN LongReference(SubSeq(pieces, 2, 5))
       ELSE IF n = 4 THEN LongReference(pieces)
       ELSE IF n = 2 THEN ShortReference(pieces)
       ELSE Null

\* C24 as claimed: parseGitHubURL returns {owner, repo, issueNumber} for the
\* four shapes https://github.com/o/r/issues/N, github.com/o/r/issues/N,
\* o/r/issues/N and o/r#N and null for every other input, and isGitHubURL(x)
\* is true exactly when parseGitHubURL(x) is not null.
ParsesExactlyTheFourShapes ==
    /\ "parseGitHubURL" \in url.called
          => url.result = Reference(url.input, { << "h", "t", "t", "p", "s", ":" >> }, FALSE)
    /\ url.called = {"parseGitHubURL", "isGitHubURL"}
          => url.isUrl = (url.result # Null)

\* C24 as amended: parseGitHubURL returns {owner, repo, issueNumber} for
\* http://github.com/o/r/issues/N, https://github.com/o/r/issues/N and
\* github.com/o/r/issues/N, each with or without a slash at the end, for
\* o/r/issues/N and for o/r#N (o and r not empty and without a slash, N a
\* string of decimal digits, issueNumber the number it denotes), and null for
\* every other input; isGitHubURL(x) is true exactly when parseGitHubURL(x) is
\* not null.
ParsesExactlyTheAcceptedShapes ==
    /\ "parseGitHubURL" \in url.called
          => url.result = Reference(url.input,
                                    { << "h", "t", "t", "p", "s", ":" >>, << "h", "t", "t", "p", ":" >> }, TRUE)
    /\ url.called = {"parseGitHubURL", "isGitHubURL"}
          => url.isUrl = (url.result # Null)

\* http://github.com/o/r/issues/007/ was parsed as issue 7 of o/r.
HttpUrlWithTrailingSlashParsed ==
    /\ url.called = {"parseGitHubURL", "isGitHubURL"}
    /\ url.input = << "h", "t", "t", "p", ":", "/", "/", "g", "i", "t", "h", "u", "b", ".", "c", "o", "m", "/", "o", "/", "r", "/", "i", "s", "s", "u", "e", "s", "/", "0", "0", "7", "/" >>
    /\ url.result = [owner |-> <<"o">>, repo |-> <<"r">>, issueNumber |-> 7]
    /\ url.isUrl

\* ------------------------------------------------------------------ executor

\* What one invocation of analyze-issue with modelName ends in, in the
\* environment of the execution: success exactly when the issue number is in
\* the context, GitHub answers, the model is registered with a configured
\* provider and the provider's makeRequest resolves.
TaskSucceedsWith(modelName) ==
    /\ exec.environment.thrown = None
    /\ context.issueNumber
    /\ exec.environment.github
    /\ RegistryHas(modelRegistry, modelName)
    /\ providers[RegistryGet(modelRegistry, modelName).provider] # None
    /\ exec.environment.adapter[RegistryGet(modelRegistry, modelName).provider] = "ok"

\* A call of executeTaskWithOptimalModel for a registered task has returned.
Executed ==
    /\ exec.pc = "done"
    /\ exec.taskName \in Tasks
    /\ exec.attempt \in {"primary", "fallback"}

\* C10: when the primary attempt of executeTaskWithOptimalModel fails (the task
\* raises or returns success = false), a fallback is configured and differs
\* from the model just used, and the task succeeds with the fallback, the
\* call returns success and modelUsed is the fallback model.
FallbackRescuesFailedPrimary ==
    (/\ Executed
     /\ ~TaskSucceedsWith(exec.selectedModel)
     /\ FallbackApplies(exec.selectedModel)
     /\ TaskSucceedsWith(context.modelSelection.fallback))
    => /\ exec.result.success
       /\ exec.result.modelUsed = context.modelSelection.fallback


\* C11: when the primary attempt and the fallback attempt of
\* executeTaskWithOptimalModel both fail (by raising or by returning
\* success = false), the call returns success = false with a message saying
\* that both the primary and the fallback model were tried.
BothFailuresReported ==
    (/\ Executed
     /\ exec.attempt = "fallback"
     /\ ~TaskSucceedsWith(context.modelSelection.fallback))
    => /\ ~exec.result.success
       /\ exec.result.message = BothTried

\* C13: executeTask and executeTaskWithOptimalModel called with a task name
\* that is not in the task registry return success = false with the
\* not-found message, select no model, invoke no task implementation and no
\* provider, attempt no fallback and leave the usage ledger unchanged.
UnknownTaskFailsWithoutEffect ==
    [][(/\ lastOp'.op \in {"executeTask", "executeTaskWithOptimalModel"}
        /\ lastOp'.arg \notin Tasks)
       => /\ exec'.pc = "done"
          /\ ~exec'.result.success
          /\ exec'.result.message = "Task not found"
          /\ exec'.taskName = lastOp'.arg
          /\ exec'.selectedModel = None
          /\ exec'.attempt = None
          /\ exec'.invocations = 0
          /\ UNCHANGED <<usageStats, inflight, selection, modelRegistry>>]_vars

\* An unknown task was asked for with an explicit model and a fallback
\* configured, after earlier calls had been recorded.
UnknownTaskAfterRecordedCalls ==
    /\ lastOp.op = "executeTaskWithOptimalModel"
    /\ lastOp.arg \notin Tasks
    /\ exec.pc = "done"
    /\ exec.params.model # None
    /\ context.modelSelection.fallback # None
    /\ TotalCalls(usageStats) > 0

\* C14: executeTaskWithOptimalModel lets no exception escape: whatever value
\* the task implementation raises (an Error, a string, null or undefined),
\* with or without a fallback, the call completes with a result whose
\* success is false and which carries a message.
NoExceptionEscapes ==
    /\ exec.attempt \in {"primary", "fallback"} => exec.pc # "escaped"
    /\ (Executed /\ ~exec.result.success) => exec.result.message # None

\* C15: executeTaskWithOptimalModel resolves the model of the primary attempt
\* as params.model when given, else the context's taskSpecific entry of the
\* task name when present, else getOptimalModel(task.category, constraints);
\* the task implementation is handed exactly that name as selectedModel on
\* the primary attempt and the fallback name on the fallback attempt.
ModelResolutionOrder ==
    [][/\ (/\ lastOp'.op = "executeTaskWithOptimalModel"
           /\ lastOp'.arg \in Tasks)
          => /\ exec'.attempt = "primary"
             /\ exec'.modelInUse = exec'.selectedModel
             /\ \E engine \in Engines :
                    exec'.selectedModel =
                        IF exec'.params.model # None
                        THEN exec'.params.model
                        ELSE IF context.modelSelection.taskSpecific[lastOp'.arg] # None
                        THEN context.modelSelection.taskSpecific[lastOp'.arg]
                        ELSE getOptimalModel(modelRegistry, taskModelPreferences,
                                             TaskCategory(lastOp'.arg),
                                             exec'.params.requirements, engine)
       /\ (lastOp'.op = "task.execute" /\ exec.attempt = "primary")
          => lastOp'.arg = exec.selectedModel
       /\ (lastOp'.op = "task.execute" /\ exec.attempt = "fallback")
          => lastOp'.arg = context.modelSelection.fallback]_vars

\* A task-specific model set at runtime was used for the primary attempt,
\* and the fallback attempt was made with the fallback name.
TaskSpecificThenFallbackUsed ==
    /\ exec.attempt = "fallback"
    /\ exec.pc = "awaiting"
    /\ exec.params.model = None
    /\ exec.selectedModel = "claude-3-haiku-20240307"
    /\ context.modelSelection.taskSpecific["analyze-issue"] = exec.selectedModel
    /\ lastOp = [op |-> "task.execute", arg |-> context.modelSelection.fallback]

\* C16: a preference set at runtime by setTaskPreference(taskName, m), m
\* registered and passing the filters of the request, is honoured by the
\* executor: executeTaskWithOptimalModel(taskName) without params.model and
\* without a taskSpecific entry dispatches the task with selectedModel = m.
RuntimePreferenceHonoured ==
    [][(/\ lastOp'.op = "executeTaskWithOptimalModel"
        /\ lastOp'.arg \in Tasks
        /\ exec'.params.model = None
        /\ context.modelSelection.taskSpecific[lastOp'.arg] = None
        /\ taskModelPreferences[lastOp'.arg] # initializeDefaultPreferences[lastOp'.arg]
        /\ RegistryHas(modelRegistry, taskModelPreferences[lastOp'.arg])
        /\ Meets(RegistryGet(modelRegistry, taskModelPreferences[lastOp'.arg]),
                 exec'.params.requirements))
       => exec'.selectedModel = taskModelPreferences[lastOp'.arg]]_vars

\* C23: whenever executeTaskWithOptimalModel returns success for a task that
\* called a provider, the reported modelUsed is the model whose usage record
\* that execution incremented, and no other record was incremented by it.
ModelUsedIsModelCharged ==
    (Executed /\ exec.result.success /\ exec.requests > 0)
        => exec.recorded = {exec.result.modelUsed}

\* C30: switchPrimaryModel(x) changes modelSelection.primary and nothing
\* else, and what executeTaskWithOptimalModel resolves and dispatches is the
\* same before and after it, for every task and all parameters: the model
\* of the primary attempt, whether the fallback applies, and the fallback.
SwitchPrimaryLeavesResolutionAlone ==
    [][lastOp'.op = "switchPrimaryModel" =>
          /\ context'.modelSelection.primary = lastOp'.arg
          /\ context' = [context EXCEPT !.modelSelection.primary = lastOp'.arg]
          /\ UNCHANGED <<providers, modelRegistry, taskModelPreferences, usageStats,
                         inflight, exec>>
          /\ \A taskName \in Tasks, params \in TaskParams, engine \in Engines :
                 ResolveModelIn(context'.modelSelection, taskName, params, engine)
                     = ResolveModelIn(context.modelSelection, taskName, params, engine)
          /\ \A selectedModel \in CatalogNames \cup {"no-such-model"} :
                 FallbackApplies(selectedModel)' = FallbackApplies(selectedModel)]_vars

\* The primary model was switched to gpt-4o where analyze-issue resolves to
\* the task-specific model set at runtime and a fallback is configured.
PrimarySwitchedAwayFromResolvedModel ==
    /\ lastOp = [op |-> "switchPrimaryModel", arg |-> "gpt-4o"]
    /\ context.modelSelection.primary = "gpt-4o"
    /\ context.modelSelection.fallback = "gpt-4o-mini"
    /\ ResolveModel("analyze-issue", NoParams, "V8") = "claude-3-haiku-20240307"
    /\ RegistryHas(modelRegistry, "gpt-4o")

\* C12: one call of executeTaskWithOptimalModel invokes the task
\* implementation at most twice, and exactly once when no fallback model is
\* configured or the fallback is the model of the primary attempt.
AtMostOneFallbackAttempt ==
    /\ exec.invocations <= 2
    /\ (/\ Executed
        /\ \/ context.modelSelection.fallback = None
           \/ context.modelSelection.fallback = exec.selectedModel)
       => exec.invocations = 1

\* The primary attempt raised with the fallback equal to the selected model.
RaisedWithFallbackSameAsPrimary ==
    /\ Executed
    /\ context.modelSelection.fallback = exec.selectedModel
    /\ exec.result.message = "Task execution failed"
    /\ exec.invocations = 1

====
